---------------------------- MODULE Spec2Model ----------------------------
(***************************************************************************)
(* A model of the food-logging core of tg-nutrition_bot: the text helpers  *)
(* of utils.py (normalisation, quantity parsing, fuzzy matching, calorie   *)
(* extraction, robust aggregation, estimate_food_option), the DataStore    *)
(* of storage.py and the aiogram handlers of handlers.py with their FSM.   *)
(*                                                                         *)
(* Representation.                                                         *)
(*  - A text is a sequence of characters, each character a string: ASCII   *)
(*    characters stand for themselves, a cyrillic letter is written        *)
(*    "cyr_<name>" (lower case) or "CYR_<name>" (upper case).             *)
(*  - A Python float is a record [t, v]: t = "num" with the integer v,     *)
(*    "nan", "inf" with v the sign, or "huge" with v the exponent of a     *)
(*    float near the top of the range (among the values of                 *)
(*    weighted_median only).  None is [t |-> "none", v |-> 0].             *)
(*    Numeric texts of the model are decimal integers, so every finite     *)
(*    value is an integer; texts with a decimal point are not inputs.      *)
(*  - Calories are counted in hundredths of a kcal, which makes the        *)
(*    division by 100.0 of _finish_food_log exact.                         *)
(*  - The FSM data of a user is a function from the keys present to their  *)
(*    values, as the dict of aiogram's MemoryStorage.                      *)
(***************************************************************************)
EXTENDS Integers, Sequences, FiniteSets, TLC

(***************************************************************************)
(* Python values                                                           *)
(***************************************************************************)
None == [t |-> "none", v |-> 0]
NaN == [t |-> "nan", v |-> 0]
PosInf == [t |-> "inf", v |-> 1]
NegInf == [t |-> "inf", v |-> -1]
Num(n) == [t |-> "num", v |-> n]

IsNum(x) == x.t = "num"

\* x > n, x <= n, x < n for a float x and an integer n; every comparison
\* with NaN is false, as in IEEE 754.
FGt(x, n) ==
    \/ x.t = "num" /\ x.v > n
    \/ x.t = "tiny" /\ (IF x.v > 0 THEN n <= 0 ELSE n < 0)
    \/ x = PosInf
FLe(x, n) ==
    \/ x.t = "num" /\ x.v <= n
    \/ x.t = "tiny" /\ (IF x.v > 0 THEN n >= 1 ELSE n >= 0)
    \/ x = NegInf
FLt(x, n) ==
    \/ x.t = "num" /\ x.v < n
    \/ x.t = "tiny" /\ (IF x.v > 0 THEN n >= 1 ELSE n >= 0)
    \/ x = NegInf

Sign(n) == IF n > 0 THEN 1 ELSE IF n < 0 THEN -1 ELSE 0

\* The floats next to zero: [t |-> "tiny", v |-> k] is k * 2^-1074 for a small
\* integer k # 0, and MinFloat (5e-324) is the least positive float.
Tiny(k) == IF k = 0 THEN Num(0) ELSE [t |-> "tiny", v |-> k]
MinFloat == Tiny(1)

\* float multiplication and addition
FMul(x, y) ==
    IF x.t = "nan" \/ y.t = "nan" THEN NaN
    ELSE IF x.t = "num" /\ y.t = "num" THEN Num(x.v * y.v)
    ELSE IF x.t = "tiny" /\ y.t = "tiny" THEN Num(0)
    ELSE IF {x.t, y.t} = {"tiny", "num"} THEN Tiny(x.v * y.v)
    ELSE IF Sign(x.v) * Sign(y.v) = 0 THEN NaN
    ELSE [t |-> "inf", v |-> Sign(x.v) * Sign(y.v)]

FAdd(x, y) ==
    IF x.t = "nan" \/ y.t = "nan" THEN NaN
    ELSE IF x.t = "num" /\ y.t = "num" THEN Num(x.v + y.v)
    ELSE IF x.t = "tiny" /\ y.t = "tiny" THEN Tiny(x.v + y.v)
    ELSE IF x.t = "tiny" THEN (IF y = Num(0) THEN x ELSE y)
    ELSE IF y.t = "tiny" THEN (IF x = Num(0) THEN y ELSE x)
    ELSE IF x.t = "inf" /\ y.t = "inf" THEN (IF x.v = y.v THEN x ELSE NaN)
    ELSE IF x.t = "inf" THEN x ELSE y

\* Python truthiness of an optional float: None and 0.0 are falsy.
Truthy(x) == x # None /\ x # Num(0)
\* x or d
Or(x, d) == IF Truthy(x) THEN x ELSE d

(***************************************************************************)
(* Characters and texts                                                    *)
(***************************************************************************)
LatinLower == <<"a", "b", "c", "d", "e", "f", "g", "h", "i", "j", "k", "l", "m",
                "n", "o", "p", "q", "r", "s", "t", "u", "v", "w", "x", "y", "z">>
LatinUpper == <<"A", "B", "C", "D", "E", "F", "G", "H", "I", "J", "K", "L", "M",
                "N", "O", "P", "Q", "R", "S", "T", "U", "V", "W", "X", "Y", "Z">>
\* the cyrillic letters used in the model, all inside U+0430..U+044F
CyrLower == <<"cyr_a", "cyr_b", "cyr_v", "cyr_g", "cyr_d", "cyr_e", "cyr_z",
              "cyr_i", "cyr_k", "cyr_l", "cyr_m", "cyr_n", "cyr_o", "cyr_p",
              "cyr_r", "cyr_s", "cyr_t", "cyr_u", "cyr_ts", "cyr_ch", "cyr_sh",
              "cyr_ya">>
CyrUpper == <<"CYR_A", "CYR_B", "CYR_V", "CYR_G", "CYR_D", "CYR_E", "CYR_Z",
              "CYR_I", "CYR_K", "CYR_L", "CYR_M", "CYR_N", "CYR_O", "CYR_P",
              "CYR_R", "CYR_S", "CYR_T", "CYR_U", "CYR_TS", "CYR_CH", "CYR_SH",
              "CYR_YA">>
Digits == <<"0", "1", "2", "3", "4", "5", "6", "7", "8", "9">>

Range(s) == {s[i] : i \in DOMAIN s}
IsDigit(c) == c \in Range(Digits)
IsSpace(c) == c = " "
DigitVal(c) == (CHOOSE i \in DOMAIN Digits : Digits[i] = c) - 1

\* str.lower() on one character ("CYR_YO" is the capital of "cyr_yo")
LowerChar(c) ==
    IF c \in Range(LatinUpper)
    THEN LatinLower[CHOOSE i \in DOMAIN LatinUpper : LatinUpper[i] = c]
    ELSE IF c \in Range(CyrUpper)
    THEN CyrLower[CHOOSE i \in DOMAIN CyrUpper : CyrUpper[i] = c]
    ELSE IF c = "CYR_YO" THEN "cyr_yo"
    ELSE c

Lower(s) == [i \in DOMAIN s |-> LowerChar(s[i])]

\* s.replace(a, b) for single characters
ReplaceChar(s, a, b) == [i \in DOMAIN s |-> IF s[i] = a THEN b ELSE s[i]]

\* s[i..j], empty when j < i
Slice(s, i, j) == IF j < i THEN << >> ELSE SubSeq(s, i, j)

\* the least j >= i with Test(s[j]), Len(s) + 1 when there is none
FirstFrom(s, i, Test(_)) ==
    IF \A j \in i..Len(s) : ~Test(s[j]) THEN Len(s) + 1
    ELSE CHOOSE j \in i..Len(s) : Test(s[j]) /\ \A k \in i..(j - 1) : ~Test(s[k])

NonDigit(c) == ~IsDigit(c)

\* str.strip()
Strip(s) ==
    IF \A i \in DOMAIN s : IsSpace(s[i]) THEN << >>
    ELSE Slice(s, CHOOSE i \in DOMAIN s : ~IsSpace(s[i]) /\ \A j \in 1..(i - 1) : IsSpace(s[j]),
                  CHOOSE i \in DOMAIN s : ~IsSpace(s[i]) /\ \A j \in (i + 1)..Len(s) : IsSpace(s[j]))

\* str.split(): the maximal runs of non-whitespace characters
RECURSIVE SplitFrom(_, _)
SplitFrom(s, i) ==
    IF i > Len(s) THEN << >>
    ELSE IF IsSpace(s[i]) THEN SplitFrom(s, i + 1)
    ELSE <<Slice(s, i, FirstFrom(s, i, IsSpace) - 1)>> \o SplitFrom(s, FirstFrom(s, i, IsSpace))

Split(s) == SplitFrom(s, 1)

\* " ".join(parts)
RECURSIVE Join(_)
Join(parts) ==
    IF Len(parts) = 0 THEN << >>
    ELSE IF Len(parts) = 1 THEN parts[1]
    ELSE parts[1] \o <<" ">> \o Join(Tail(parts))


\* int(digits) for a sequence of decimal digits
RECURSIVE DigitsToInt(_)
DigitsToInt(ds) ==
    IF Len(ds) = 0 THEN 0
    ELSE 10 * DigitsToInt(Slice(ds, 1, Len(ds) - 1)) + DigitVal(ds[Len(ds)])

AllDigits(s) == Len(s) > 0 /\ \A i \in DOMAIN s : IsDigit(s[i])

\* the text used where Python holds None in place of a str
NoneText == <<"<None>">>
TruthyText(s) == s # NoneText /\ s # << >>

(***************************************************************************)
(* utils.py: normalisation and quantity parsing                            *)
(***************************************************************************)
STOP_WORDS ==
    { <<"cyr_b", "cyr_e", "cyr_z">>, <<"cyr_s">>, <<"cyr_i">>,
      <<"cyr_i", "cyr_l", "cyr_i">>, <<"cyr_n", "cyr_a">>, <<"cyr_v">>,
      <<"cyr_p", "cyr_o">>, <<"cyr_i", "cyr_z">>, <<"cyr_d", "cyr_l", "cyr_ya">>,
      <<"cyr_s", "cyr_o">>,
      <<"cyr_u", "cyr_p", "cyr_a", "cyr_k", "cyr_o", "cyr_v", "cyr_k", "cyr_a">>,
      <<"cyr_p", "cyr_a", "cyr_ch", "cyr_k", "cyr_a">>,
      <<"cyr_p", "cyr_a", "cyr_k", "cyr_e", "cyr_t">>,
      <<"cyr_sh", "cyr_t">>,
      <<"cyr_sh", "cyr_t", "cyr_u", "cyr_k", "cyr_i">>,
      <<"cyr_sh", "cyr_t", "cyr_u", "cyr_k">> }

\* re.sub(r"\([^)]*\)", " ", t): scanning from the left, a "(" with a ")"
\* somewhere after it is replaced, up to the first such ")", by one space.
RECURSIVE RemoveParens(_, _)
RemoveParens(s, i) ==
    IF i > Len(s) THEN << >>
    ELSE IF s[i] = "(" /\ \E j \in (i + 1)..Len(s) : s[j] = ")"
    THEN <<" ">> \o RemoveParens(s, 1 + FirstFrom(s, i + 1, LAMBDA c : c = ")"))
    ELSE <<s[i]>> \o RemoveParens(s, i + 1)

\* the characters [0-9a-zа-я\s] keeps
KeptChar(c) ==
    IsDigit(c) \/ c \in Range(LatinLower) \/ c \in Range(CyrLower) \/ IsSpace(c)

\* re.sub(r"[^0-9a-zа-я\s]+", " ", t) replaces each maximal run of other
\* characters by one space; the split() that follows makes that equal to
\* replacing each such character by a space.
ReplaceOther(s) == [i \in DOMAIN s |-> IF KeptChar(s[i]) THEN s[i] ELSE " "]

\* normalize_food_name with the stop words dropped before the other
\* characters are replaced
normalize_food_name_early(text) ==
    Join(Split(ReplaceOther(Join(SelectSeq(
             Split(RemoveParens(ReplaceChar(Strip(Lower(text)), "cyr_yo", "cyr_e"), 1)),
             LAMBDA p : p \notin STOP_WORDS)))))

normalize_food_name(text) ==
    Join(SelectSeq(Split(ReplaceOther(RemoveParens(
                       ReplaceChar(Strip(Lower(text)), "cyr_yo", "cyr_e"), 1))),
                   LAMBDA p : p \notin STOP_WORDS))

GramSuffixes == { <<"cyr_g">>, <<"cyr_g", "cyr_r">>, <<"g">>,
                  <<"g", "r", "a", "m">>, <<"g", "r", "a", "m", "s">> }
MlSuffixes == { <<"cyr_m", "cyr_l">>, <<"m", "l">> }
PieceSuffixes == { <<"cyr_sh", "cyr_t">>, <<"p", "c", "s">>,
                   <<"p", "i", "e", "c", "e">>, <<"p", "i", "e", "c", "e", "s">> }
ServingSuffixes ==
    { <<"cyr_p", "cyr_o", "cyr_r", "cyr_ts">>,
      <<"cyr_p", "cyr_o", "cyr_r", "cyr_ts", "cyr_i", "cyr_ya">>,
      <<"cyr_p", "cyr_o", "cyr_r", "cyr_ts", "cyr_i", "cyr_i">>,
      <<"s", "e", "r", "v", "i", "n", "g">>,
      <<"p", "o", "r", "t", "i", "o", "n">> }

\* the value below which a bare number is taken as pieces
AutoMax == 10

\* Amount with "val < 10" in the place of "val <= 10"
AmountBelow(s, n, val, suffix) ==
    IF n = 0 THEN [value |-> None, unit |-> "None"]
    ELSE IF suffix \in GramSuffixes THEN [value |-> Num(val), unit |-> "g"]
    ELSE IF suffix \in MlSuffixes THEN [value |-> Num(val), unit |-> "ml"]
    ELSE IF suffix \in PieceSuffixes THEN [value |-> Num(val), unit |-> "piece"]
    ELSE IF suffix \in ServingSuffixes THEN [value |-> Num(val), unit |-> "serving"]
    ELSE IF n = Len(s)
         THEN (IF val < 10 THEN [value |-> Num(val), unit |-> "auto"]
               ELSE [value |-> Num(val), unit |-> "g"])
    ELSE [value |-> None, unit |-> "None"]

\* (value, unit) of parse_amount_suffix; unit "None" stands for None.  The
\* number is \d+: the optional fraction of the patterns is not modelled.
\* the text s starts with n digits of value val, the suffix follows them
Amount(s, n, val, suffix) ==
    IF n = 0 THEN [value |-> None, unit |-> "None"]
    ELSE IF suffix \in GramSuffixes THEN [value |-> Num(val), unit |-> "g"]
    ELSE IF suffix \in MlSuffixes THEN [value |-> Num(val), unit |-> "ml"]
    ELSE IF suffix \in PieceSuffixes THEN [value |-> Num(val), unit |-> "piece"]
    ELSE IF suffix \in ServingSuffixes THEN [value |-> Num(val), unit |-> "serving"]
    ELSE IF n = Len(s)
         THEN (IF val <= AutoMax THEN [value |-> Num(val), unit |-> "auto"]
               ELSE [value |-> Num(val), unit |-> "g"])
    ELSE [value |-> None, unit |-> "None"]

AmountAt(s, n) ==
    Amount(s, n, DigitsToInt(Slice(s, 1, n)), Strip(Slice(s, n + 1, Len(s))))

parse_amount_suffix(raw) ==
    AmountAt(ReplaceChar(Strip(Lower(raw)), ",", "."),
             FirstFrom(ReplaceChar(Strip(Lower(raw)), ",", "."), 1, NonDigit) - 1)

\* FoodAndAmount with one word only left out of the food name when the
\* last two words are the amount
FoodAndAmountOneOff(text, parts, n, one, two) ==
    IF n >= 2 /\ one.value # None /\ one.unit # "None"
    THEN [food |-> Join(Slice(parts, 1, n - 1)), qty |-> one.value, unit |-> one.unit]
    ELSE IF n >= 2 /\ two.value # None /\ two.unit # "None"
    THEN [food |-> Join(Slice(parts, 1, n - 1)), qty |-> two.value, unit |-> two.unit]
    ELSE [food |-> text, qty |-> None, unit |-> "None"]

\* (food, qty, unit) of split_food_and_amount; one: the last word taken as
\* an amount, two: the last two words
FoodAndAmount(text, parts, n, one, two) ==
    IF n >= 2 /\ one.value # None /\ one.unit # "None"
    THEN [food |-> Join(Slice(parts, 1, n - 1)), qty |-> one.value, unit |-> one.unit]
    ELSE IF n >= 2 /\ two.value # None /\ two.unit # "None"
    THEN [food |-> Join(Slice(parts, 1, n - 2)), qty |-> two.value, unit |-> two.unit]
    ELSE [food |-> text, qty |-> None, unit |-> "None"]

SplitWords(text, parts) ==
    FoodAndAmount(text, parts, Len(parts), parse_amount_suffix(parts[Len(parts)]),
                  parse_amount_suffix(parts[Len(parts) - 1] \o <<" ">> \o parts[Len(parts)]))

split_food_and_amount(args) ==
    IF Strip(args) = << >> THEN [food |-> << >>, qty |-> None, unit |-> "None"]
    ELSE SplitWords(Strip(args), Split(Strip(args)))

(***************************************************************************)
(* handlers.py: parse_float                                                *)
(***************************************************************************)
\* float(text) of Python, None when it raises: surrounding whitespace is
\* ignored, then an optional sign is followed by digits, "nan", "inf" or
\* "infinity" in any letter case (a fraction or an exponent is not among the
\* inputs of the model).
FloatOf(sgn, body) ==
    IF body = <<"n", "a", "n">> THEN NaN
    ELSE IF body \in { <<"i", "n", "f">>, <<"i", "n", "f", "i", "n", "i", "t", "y">> }
    THEN [t |-> "inf", v |-> sgn]
    ELSE IF AllDigits(body) THEN Num(sgn * DigitsToInt(body))
    ELSE None

FloatOfStripped(t) ==
    FloatOf(IF Len(t) > 0 /\ t[1] = "-" THEN -1 ELSE 1,
            Lower(IF Len(t) > 0 /\ t[1] \in {"+", "-"} THEN Tail(t) ELSE t))

PyFloat(text) == FloatOfStripped(Strip(text))

parse_float(s) == PyFloat(ReplaceChar(Strip(s), ",", "."))

(***************************************************************************)
(* utils.py: match_score (difflib.SequenceMatcher.ratio)                   *)
(***************************************************************************)
\* find_longest_match(alo, ahi, blo, bhi) with 1-based inclusive bounds: the
\* longest common block, the earliest in a and then the earliest in b among
\* the longest; <<i, j, k>> with k = 0 when there is none.  No element is
\* junk (isjunk is None and the autojunk heuristic needs len(b) >= 200).
LongestMatch(a, b, alo, ahi, blo, bhi) ==
    LET blocks == {ijk \in (alo..ahi) \X (blo..bhi) \X (1..(ahi - alo + 1)) :
                     /\ ijk[1] + ijk[3] - 1 <= ahi
                     /\ ijk[2] + ijk[3] - 1 <= bhi
                     /\ \A d \in 0..(ijk[3] - 1) : a[ijk[1] + d] = b[ijk[2] + d]}
        better(x, y) == \/ x[3] > y[3]
                        \/ x[3] = y[3] /\ x[1] < y[1]
                        \/ x[3] = y[3] /\ x[1] = y[1] /\ x[2] <= y[2]
    IN  IF blocks = {} THEN <<alo, blo, 0>>
        ELSE CHOOSE x \in blocks : \A y \in blocks : better(x, y)

\* the total size of the matching blocks get_matching_blocks() finds
RECURSIVE MatchCount(_, _, _, _, _, _)
MatchCount(a, b, alo, ahi, blo, bhi) ==
    IF alo > ahi \/ blo > bhi THEN 0
    ELSE LET m == LongestMatch(a, b, alo, ahi, blo, bhi)
         IN  IF m[3] = 0 THEN 0
             ELSE m[3] + MatchCount(a, b, alo, m[1] - 1, blo, m[2] - 1)
                       + MatchCount(a, b, m[1] + m[3], ahi, m[2] + m[3], bhi)

\* round(num / den), halves to the even integer, for num >= 0 and den > 0
RoundHalfEven(num, den) ==
    LET q == num \div den
        r == num % den
    IN  IF 2 * r < den THEN q
        ELSE IF 2 * r > den THEN q + 1
        ELSE IF q % 2 = 0 THEN q ELSE q + 1

match_score(query_norm, name_norm) ==
    IF query_norm = << >> \/ name_norm = << >> THEN 0
    ELSE RoundHalfEven(200 * MatchCount(query_norm, name_norm, 1, Len(query_norm),
                                        1, Len(name_norm)),
                       Len(query_norm) + Len(name_norm))


(***************************************************************************)
(* utils.py: calorie extraction                                            *)
(***************************************************************************)
\* A JSON value of a nutriment field: None (absent or null), a number (a
\* float) or a string [t |-> "str", v |-> text].
Str(text) == [t |-> "str", v |-> text]

\* _to_float
to_float(x) == IF x.t = "str" THEN PyFloat(x.v) ELSE x

\* kj / 4.184 (= kj * 125 / 523), exact for the kJ values of the model, the
\* multiples of 523; next to zero the quotient is rounded to the nearest
\* multiple of 2^-1074, which is 0.0 for 5e-324 and 1e-323
KjToKcal(kj) ==
    IF kj.t = "num" THEN Num((kj.v * 125) \div 523)
    ELSE IF kj.t = "tiny" THEN Tiny(RoundHalfEven(kj.v * 125, 523))
    ELSE kj

NoNutriments ==
    [energy_kcal_100g |-> None, energy_kj_100g |-> None, energy_100g |-> None,
     proteins_100g |-> None, fat_100g |-> None, carbohydrates_100g |-> None]

\* kcal, kj, p, f, c: the fields as floats; est: 4p + 9f + 4c
KcalOf(kcal, kj, p, f, c, est) ==
    IF kcal # None /\ FGt(kcal, 0) THEN kcal
    ELSE IF kj # None /\ FGt(kj, 0) THEN KjToKcal(kj)
    ELSE IF p # None /\ f # None /\ c # None /\ FGt(est, 0) THEN est
    ELSE None

kcal_from_nutriments(nutr) ==
    KcalOf(to_float(nutr.energy_kcal_100g),
           IF to_float(nutr.energy_kj_100g) = None THEN to_float(nutr.energy_100g)
           ELSE to_float(nutr.energy_kj_100g),
           to_float(nutr.proteins_100g), to_float(nutr.fat_100g),
           to_float(nutr.carbohydrates_100g),
           FAdd(FAdd(FMul(Num(4), to_float(nutr.proteins_100g)),
                     FMul(Num(9), to_float(nutr.fat_100g))),
                FMul(Num(4), to_float(nutr.carbohydrates_100g))))

\* \w of the regular expressions, on a lower-cased text
IsWordChar(c) ==
    IsDigit(c) \/ c \in Range(LatinLower) \/ c \in Range(CyrLower)
    \/ c = "cyr_yo" \/ c = "_"

\* A match of (\d+)\s*(u1|u2|...)\b starting at i: the digits from i up to
\* e, then whitespace, then the first unit of `units` that fits and ends a
\* word.  The value matched, or -1.
UnitFits(s, u, w) ==
    /\ u + Len(w) - 1 <= Len(s)
    /\ Slice(s, u, u + Len(w) - 1) = w
    /\ (u + Len(w) > Len(s) \/ ~IsWordChar(s[u + Len(w)]))

UnitMatchFrom(s, i, units, e) ==
    IF e > i /\ \E k \in DOMAIN units :
                   UnitFits(s, FirstFrom(s, e, LAMBDA c : ~IsSpace(c)), units[k])
    THEN DigitsToInt(Slice(s, i, e - 1))
    ELSE -1

UnitMatchAt(s, i, units) == UnitMatchFrom(s, i, units, FirstFrom(s, i, NonDigit))

\* re.search: the match with the leftmost start, None when there is none
LeftmostMatch(s, units, starts) ==
    IF starts = {} THEN None
    ELSE Num(UnitMatchAt(s, CHOOSE i \in starts : \A j \in starts : i <= j, units))

UnitSearch(s, units) ==
    LeftmostMatch(s, units, {i \in DOMAIN s : UnitMatchAt(s, i, units) >= 0})

\* parse_serving_g of a serving_size text (NoneText: absent); the number is
\* \d+, a descriptor of the model holds no decimal point
ServingOf(s) ==
    IF UnitSearch(s, << <<"g">>, <<"cyr_g", "cyr_r">>, <<"cyr_g">> >>) # None
    THEN UnitSearch(s, << <<"g">>, <<"cyr_g", "cyr_r">>, <<"cyr_g">> >>)
    ELSE UnitSearch(s, << <<"m", "l">>, <<"cyr_m", "cyr_l">> >>)

parse_serving_g(serving_size) ==
    IF ~TruthyText(serving_size) THEN None
    ELSE ServingOf(ReplaceChar(Strip(Lower(serving_size)), ",", "."))

(***************************************************************************)
(* utils.py: weighted_median                                               *)
(***************************************************************************)
SeqSum(w) ==
    LET f[i \in 0..Len(w)] == IF i = 0 THEN 0 ELSE f[i - 1] + w[i]
    IN  f[Len(w)]

\* the positions 1..n in the order sorted(..., key) gives them: ascending
\* keys, equal keys in their original order (the sort is stable)
SortedIndex(keys) ==
    LET n == Len(keys)
        rank(i) == Cardinality({j \in 1..n : keys[j] < keys[i] \/ (keys[j] = keys[i] /\ j < i)})
    IN  [r \in 1..n |-> CHOOSE i \in 1..n : rank(i) = r - 1]

\* The values of weighted_median are floats.  Besides the numbers, a float
\* [t |-> "huge", v |-> e] stands for the greatest float below 2^(e + 1);
\* MaxFloat is sys.float_info.max.  Huge floats occur only among the values
\* given to weighted_median.
MaxFloat == [t |-> "huge", v |-> 1023]

\* x < y for two finite floats
FLess(x, y) ==
    IF x.t = y.t THEN x.v < y.v ELSE x.t = "num"

\* (x + y) / 2 for two finite floats x <= y, as statistics.median computes
\* the mean of the two middle values: the half of the sum of two numbers is
\* taken with integer division, a number added to a huge float is lost in
\* the rounding, and the sum of two floats equal to MaxFloat overflows to
\* inf.  Two huge floats of one call are equal.
FMean(x, y) ==
    CASE x.t = "num" /\ y.t = "num" -> Num((x.v + y.v) \div 2)
      [] x.t = "num" /\ y.t = "huge" -> [t |-> "huge", v |-> y.v - 1]
      [] x.t = "huge" /\ x = y -> IF x = MaxFloat THEN PosInf ELSE x

\* the positions 1..n of floats in the order sorted(..., key) gives them
SortedFloatIndex(values) ==
    LET n == Len(values)
        rank(i) == Cardinality({j \in 1..n : FLess(values[j], values[i])
                                              \/ (values[j] = values[i] /\ j < i)})
    IN  [r \in 1..n |-> CHOOSE i \in 1..n : rank(i) = r - 1]

\* statistics.median of finite floats
Median(values) ==
    LET n == Len(values)
        idx == SortedFloatIndex(values)
    IN  IF n % 2 = 1 THEN values[idx[(n + 1) \div 2]]
        ELSE FMean(values[idx[n \div 2]], values[idx[n \div 2 + 1]])

\* weighted_median with the weights left out of the loop: the median of
\* the values
weighted_median_unweighted(values, weights) == Median(values)

\* weighted_median of finite floats under integer weights (a non-empty list)
weighted_median(values, weights) ==
    LET idx == SortedFloatIndex(values)
        n == Len(values)
        total == SeqSum(weights)
        cum[i \in 0..n] == IF i = 0 THEN 0 ELSE cum[i - 1] + weights[idx[i]]
        hit == {i \in 1..n : 2 * cum[i] >= total}
    IN  IF total <= 0 THEN Median(values)
        ELSE IF hit = {} THEN values[idx[n]]
        ELSE values[idx[CHOOSE i \in hit : \A j \in hit : i <= j]]

(***************************************************************************)
(* utils.py: FoodOption and the OpenFoodFacts retrievers                   *)
(***************************************************************************)
\* the dataclass FoodOption
FoodOption(name, kcal_100g, score, source, serving_g) ==
    [name |-> name, kcal_100g |-> kcal_100g, score |-> score, source |-> source,
     serving_g |-> serving_g]

\* None where a FoodOption is expected
NoOption == FoodOption(NoneText, None, 0, "None", None)

\* the literal of the product with no name
Unknown == <<"CYR_N", "cyr_e", "cyr_i", "cyr_z", "cyr_v", "cyr_e", "cyr_s",
             "cyr_t", "cyr_n", "cyr_o">>

\* A product of the OpenFoodFacts JSON: product_name, generic_name and
\* serving_size are texts (NoneText: absent), nutriments as NoNutriments.
ProductName(p) ==
    IF TruthyText(p.product_name) THEN p.product_name
    ELSE IF TruthyText(p.generic_name) THEN p.generic_name
    ELSE Unknown

\* The outcome of session.get(...) and r.json(): kind is
\*   "error"     aiohttp.ClientError or asyncio.TimeoutError was raised,
\*   "status"    the status is not 200,
\*   "ok"        the body is a JSON object,
\*   "null"      the body is JSON null,
\*   "badjson"   the body is not JSON (json() raises a ValueError),
\*   "notobject" the body is JSON, not an object and not null.
\* search_openfoodfacts_candidates without its two "except" clauses: the
\* exception of the request leaves the function
search_candidates_uncaught(query, resp) ==
    IF Strip(query) = << >> THEN [raised |-> FALSE, products |-> << >>]
    ELSE IF resp.kind = "status" THEN [raised |-> FALSE, products |-> << >>]
    ELSE IF resp.kind = "ok" THEN [raised |-> FALSE, products |-> resp.products]
    ELSE [raised |-> TRUE, products |-> << >>]

\* search_openfoodfacts_candidates: [raised, products]
search_openfoodfacts_candidates(query, resp) ==
    IF Strip(query) = << >> THEN [raised |-> FALSE, products |-> << >>]
    ELSE IF resp.kind \in {"error", "status"} THEN [raised |-> FALSE, products |-> << >>]
    ELSE IF resp.kind = "ok" THEN [raised |-> FALSE, products |-> resp.products]
    ELSE [raised |-> TRUE, products |-> << >>]

\* re.sub(r"\D+", "", barcode)
OnlyDigits(s) == SelectSeq(s, IsDigit)

\* food_by_barcode: [raised, opt]
BarcodeProduct(p, kcal) ==
    IF kcal = None THEN [raised |-> FALSE, opt |-> NoOption]
    ELSE [raised |-> FALSE,
          opt |-> FoodOption(ProductName(p), kcal, 100, "barcode",
                             parse_serving_g(p.serving_size))]

food_by_barcode(barcode, resp) ==
    IF OnlyDigits(barcode) = << >> THEN [raised |-> FALSE, opt |-> NoOption]
    ELSE IF resp.kind \in {"error", "status", "null"} THEN [raised |-> FALSE, opt |-> NoOption]
    ELSE IF resp.kind \in {"badjson", "notobject"} THEN [raised |-> TRUE, opt |-> NoOption]
    ELSE IF resp.status # 1 THEN [raised |-> FALSE, opt |-> NoOption]
    ELSE BarcodeProduct(resp.product, kcal_from_nutriments(resp.product.nutriments))

(***************************************************************************)
(* handlers.py: the arguments of /add_food                                 *)
(***************************************************************************)
\* the parsing of cmd_add_food: [error, name, kcal, serving_g], error
\* "None" when a record is stored
AddFoodError(e) == [error |-> e, name |-> NoneText, kcal |-> None, serving_g |-> None]

\* first: kcal, serving_g and the number of name parts after the first
\* guess; second: after the second guess
AddFoodRecord(parts, n, first, second) ==
    IF n = 0 THEN AddFoodError("usage")
    ELSE IF n < 2 THEN AddFoodError("too_few")
    ELSE IF first.kcal = None THEN AddFoodError("no_kcal")
    ELSE IF Strip(Join(Slice(parts, 1, second.names))) = << >> THEN AddFoodError("no_name")
    ELSE [error |-> "None", name |-> Strip(Join(Slice(parts, 1, second.names))),
          kcal |-> second.kcal, serving_g |-> second.serving_g]

AddFoodGuess(parts, n, last, prev, first) ==
    AddFoodRecord(parts, n, first,
                  IF n >= 3 /\ first.serving_g = None /\ prev # None /\ last # None
                  THEN [kcal |-> prev, serving_g |-> last, names |-> n - 2]
                  ELSE first)

AddFoodNumbers(parts, n, last, prev) ==
    AddFoodGuess(parts, n, last, prev,
                 IF last = None /\ n >= 3
                 THEN [kcal |-> prev, serving_g |-> last, names |-> n - 2]
                 ELSE [kcal |-> last, serving_g |-> None, names |-> n - 1])

AddFoodParts(parts) ==
    AddFoodNumbers(parts, Len(parts), parse_float(parts[Len(parts)]),
                   parse_float(parts[Len(parts) - 1]))

add_food_args(args) == AddFoodParts(Split(Strip(args)))

\* the text "продукт" used when the data names no food
Product == <<"cyr_p", "cyr_r", "cyr_o", "cyr_d", "cyr_u", "cyr_k", "cyr_t">>

(***************************************************************************)
(* The inputs of a behaviour                                               *)
(***************************************************************************)
UserIds == {1}

\* the arguments of /log_food
RawArgs ==
    { <<"r", "i", "c", "e">>, <<"r", "i", "c", "e", " ", "2">>, <<"r", "i", "c", "e", " ", "0", " ", "p", "c", "s">>,
      <<"r", "i", "c", "e", " ", "6", "0", "0", "0">>, <<"1", "2", "3", "4", "5", "6", "7", "8", " ", "2">>, << >>,
      <<"2", " ", "p", "c", "s">> }

\* the arguments of /add_food
AddFoodArgs ==
    { <<"r", "i", "c", "e", " ", "8", "9">>, <<"r", "i", "c", "e", " ", "0">>,
      <<"r", "i", "c", "e">> }

\* the texts answered to the prompts of the food flow
Texts == { <<"a", "b", "c">>, <<"0">>, <<"n", "a", "n">>, <<"1", "2", "0">>, <<"6", "0", "0", "0">> }

\* the texts answered to the prompts of the profile dialogue
ProfileTexts == { <<"a", "b", "c">>, <<"8", "0">> }

\* the messages of the dialogue in which commands meet the prompts of the
\* food flow: each command of the bot but /start and /help, /log_water and
\* /log_food also with arguments that are refused, /log_workout with a
\* single argument, and an answer that every prompt accepts
MessageTexts ==
    { <<"/", "s", "e", "t", "_", "p", "r", "o", "f", "i", "l", "e">>,
      <<"/", "a", "d", "d", "_", "f", "o", "o", "d", " ", "r", "i", "c", "e", " ", "8", "9">>,
      <<"/", "l", "o", "g", "_", "w", "a", "t", "e", "r", " ", "2", "5", "0">>,
      <<"/", "l", "o", "g", "_", "w", "a", "t", "e", "r", " ", "a", "b", "c">>,
      <<"/", "l", "o", "g", "_", "f", "o", "o", "d", " ", "r", "i", "c", "e">>,
      <<"/", "l", "o", "g", "_", "f", "o", "o", "d", " ", "r", "i", "c", "e", " ", "2">>,
      <<"/", "l", "o", "g", "_", "f", "o", "o", "d">>,
      <<"/", "l", "o", "g", "_", "w", "o", "r", "k", "o", "u", "t", " ", "r", "u", "n">>,
      <<"/", "c", "h", "e", "c", "k", "_", "p", "r", "o", "g", "r", "e", "s", "s">>,
      <<"/", "p", "l", "o", "t">>,
      <<"/", "r", "e", "s", "e", "t", "_", "t", "o", "d", "a", "y">>,
      <<"1", "2", "0">> }


\* the names of the commands
CommandName ==
    [ start |-> <<"s", "t", "a", "r", "t">>,
      help |-> <<"h", "e", "l", "p">>,
      set_profile |-> <<"s", "e", "t", "_", "p", "r", "o", "f", "i", "l", "e">>,
      add_food |-> <<"a", "d", "d", "_", "f", "o", "o", "d">>,
      log_water |-> <<"l", "o", "g", "_", "w", "a", "t", "e", "r">>,
      log_food |-> <<"l", "o", "g", "_", "f", "o", "o", "d">>,
      log_workout |-> <<"l", "o", "g", "_", "w", "o", "r", "k", "o", "u", "t">>,
      check_progress |-> <<"c", "h", "e", "c", "k", "_", "p", "r", "o", "g", "r", "e", "s", "s">>,
      plot |-> <<"p", "l", "o", "t">>,
      reset_today |-> <<"r", "e", "s", "e", "t", "_", "t", "o", "d", "a", "y">> ]

\* the indexes of the buttons of a choice keyboard
PickIdx == {0, 1}

Product100(name, kcal) ==
    [product_name |-> name, generic_name |-> NoneText, serving_size |-> NoneText,
     nutriments |-> [NoNutriments EXCEPT !.energy_kcal_100g = Num(kcal)]]

\* the outcomes of the search request, each under a name
OffFail == [kind |-> "error", products |-> << >>]
OffRice == [kind |-> "ok", products |-> << Product100(<<"R", "i", "c", "e">>, 130) >>]
OffSimilar ==
    [kind |-> "ok",
     products |-> << Product100(<<"R", "i", "s", "e">>, 120), Product100(<<"R", "y", "e">>, 300) >>]
\* a 200 response whose body is not JSON
OffBadJson == [kind |-> "badjson", products |-> << >>]
OffResponse ==
    [fail |-> OffFail, rice |-> OffRice, similar |-> OffSimilar, badjson |-> OffBadJson]
OffResponses == {OffResponse[id] : id \in DOMAIN OffResponse}

\* the outcomes of the barcode request, each under a name
BcFail == [kind |-> "error", status |-> 0, product |-> Product100(NoneText, 0)]
BcMilk == [kind |-> "ok", status |-> 1, product |-> Product100(<<"M", "i", "l", "k">>, 60)]
BcBadJson == [kind |-> "badjson", status |-> 0, product |-> Product100(NoneText, 0)]
BcResponse == [fail |-> BcFail, milk |-> BcMilk, badjson |-> BcBadJson]
BcResponses == {BcResponse[id] : id \in DOMAIN BcResponse}

\* The queries and the products of the calls of estimate_food_option made on
\* its own.  Against the query "rice" the names score 100 (Rice), 89 (Rices),
\* 75 (Rise), 57 (Rye), 25 (Milk) and 0 (a product without a name).
CallQueries == { <<"r", "i", "c", "e">>, <<"R", "i", "s", "e">> }
\* the queries of the calls with a barcode lookup: 8 digits, 8 digits with a
\* space among them, 7 digits, 15 digits, and no digit
LookupQueries ==
    { <<"1", "2", "3", "4", "5", "6", "7", "8">>,
      <<"1", "2", "3", "4", " ", "5", "6", "7", "8">>,
      <<"1", "2", "3", "4", "5", "6", "7">>,
      <<"1", "2", "3", "4", "5", "6", "7", "8", "9", "0", "1", "2", "3", "4", "5">>,
      <<"r", "i", "c", "e">> }
CallProducts ==
    << Product100(<<"R", "i", "c", "e">>, 50), Product100(<<"R", "i", "c", "e">>, 70),
       Product100(NoneText, 60), Product100(<<"R", "i", "c", "e", "s">>, 950),
       Product100(<<"R", "i", "s", "e">>, 52), Product100(<<"R", "y", "e">>, 54),
       Product100(<<"M", "i", "l", "k">>, 0) >>

Reverse(s) == [i \in 1..Len(s) |-> s[Len(s) + 1 - i]]
\* the products of the indexes S, in the order of their indexes
ProductsOf(S) ==
    [r \in 1..Cardinality(S) |->
        CallProducts[CHOOSE i \in S : Cardinality({j \in S : j < i}) = r - 1]]
\* the lists of products a search returns: each choice of products, in two
\* orders
CallLists ==
    {ProductsOf(S) : S \in SUBSET DOMAIN CallProducts}
        \cup {Reverse(ProductsOf(S)) : S \in SUBSET DOMAIN CallProducts}
CallOffResponses == {[kind |-> "ok", products |-> l] : l \in CallLists} \cup {OffFail}

(***************************************************************************)
(* The text functions on the texts of a behaviour                          *)
(***************************************************************************)
\* split_food_and_amount, add_food_args and parse_float, computed once for
\* the texts of a behaviour
SplitTable == [raw \in RawArgs |-> split_food_and_amount(raw)]
SplitArgs(raw) == SplitTable[raw]

AddTable == [args \in AddFoodArgs |-> add_food_args(args)]
AddArgs(args) == AddTable[args]

FloatTable == [t \in Texts \cup ProfileTexts \cup MessageTexts |-> parse_float(t)]
ParseFloat(text) == FloatTable[text]

\* The names of foods a behaviour meets: the queries of RawArgs, the names
\* of the products of OffResponses and BcResponses, the names given by
\* AddFoodArgs, the default names and the text of an absent name.
FoodNames ==
    { <<"r", "i", "c", "e">>, <<"1", "2", "3", "4", "5", "6", "7", "8">>, << >>,
      <<"R", "i", "c", "e">>, <<"R", "i", "s", "e">>, <<"R", "y", "e">>,
      <<"M", "i", "l", "k">>, Unknown, Product, NoneText,
      <<"R", "i", "c", "e", "s">>, <<"R", "i", "d", "e">> } \cup LookupQueries

\* normalize_food_name and match_score, computed once for the names of a
\* behaviour
NormTable == [t \in FoodNames |-> normalize_food_name(t)]
Norm(text) == NormTable[text]

FoodKeys == {NormTable[t] : t \in FoodNames}
ScoreTable == [a \in FoodKeys |-> [b \in FoodKeys |-> match_score(a, b)]]

Score(query_norm, name_norm) == ScoreTable[query_norm][name_norm]

(***************************************************************************)
(* utils.py: best_custom_match                                             *)
(***************************************************************************)
\* A user's custom_foods is the sequence of its [key, rec] items in the
\* insertion order of the dict; rec = [name, kcal_100g, serving_g, source].
CfKeys(cf) == {cf[i].key : i \in DOMAIN cf}
CfRec(cf, k) == cf[CHOOSE i \in DOMAIN cf : cf[i].key = k].rec

\* the first position with the greatest score, as the loop
\* "if s > best[1]" keeps
BestFuzzy(scores) ==
    CHOOSE i \in DOMAIN scores :
        /\ \A j \in DOMAIN scores : scores[j] <= scores[i]
        /\ \A j \in 1..(i - 1) : scores[j] < scores[i]

\* the least fuzzy score best_custom_match returns
FuzzyMin == 70

\* the FoodOption of a record with the float kcal of its kcal_100g
CustomOption(rec, kcal, name, score, source) ==
    IF kcal = None THEN NoOption
    ELSE FoodOption(IF TruthyText(rec.name) THEN rec.name ELSE name, kcal, score, source,
                    to_float(rec.serving_g))

\* qn: the normalised query; scores: the scores of the keys of cf
CustomMatch(query, cf, qn, scores) ==
    IF qn = << >> \/ Len(cf) = 0 THEN NoOption
    ELSE IF qn \in CfKeys(cf)
    THEN CustomOption(CfRec(cf, qn), to_float(CfRec(cf, qn).kcal_100g), query, 100,
                      "custom_exact")
    ELSE IF scores[BestFuzzy(scores)] < FuzzyMin THEN NoOption
    ELSE CustomOption(cf[BestFuzzy(scores)].rec, to_float(cf[BestFuzzy(scores)].rec.kcal_100g),
                      cf[BestFuzzy(scores)].key, scores[BestFuzzy(scores)], "custom_fuzzy")

best_custom_match(query, cf) ==
    CustomMatch(query, cf, Norm(query), [j \in DOMAIN cf |-> Score(Norm(query), cf[j].key)])

(***************************************************************************)
(* utils.py: estimate_food_option                                          *)
(***************************************************************************)
Result(status, chosen, options, confidence, note) ==
    [status |-> status, chosen |-> chosen, options |-> options,
     confidence |-> confidence, note |-> note]

\* the exception of a retriever leaves estimate_food_option
Raised == Result("raise", NoOption, << >>, 0, "raise")

\* re.fullmatch(r"\d{8,14}", raw.replace(" ", ""))
BarcodeMin == 8
BarcodeMax == 14
IsBarcode(raw) ==
    LET d == SelectSeq(raw, LAMBDA c : c # " ")
    IN  Len(d) >= BarcodeMin /\ Len(d) <= BarcodeMax /\ AllDigits(d)

\* the FoodOption list built from the products, in their order
OffOption(qn, name, p) ==
    FoodOption(name, kcal_from_nutriments(p.nutriments), Score(qn, Norm(name)), "off",
               parse_serving_g(p.serving_size))

OffOptions(qn, prods) ==
    SelectSeq([i \in DOMAIN prods |-> OffOption(qn, ProductName(prods[i]), prods[i])],
              LAMBDA o : o.kcal_100g # None)

\* options.sort(key=score, reverse=True): descending, equal scores in their
\* original order
SortByScore(options) ==
    LET idx == SortedIndex([i \in DOMAIN options |-> 0 - options[i].score])
    IN  [r \in DOMAIN options |-> options[idx[r]]]

TopN == 5
ShownN == 3
PlausibleMax == 900
Plausible(o) == FGt(o.kcal_100g, 0) /\ FLt(o.kcal_100g, PlausibleMax)

Max2(a, b) == IF a >= b THEN a ELSE b
Min2(a, b) == IF a <= b THEN a ELSE b

\* the confidence heuristic without its branch "elif best_score >= 80"
BaseConfidenceTwoTiers(best_score) ==
    IF best_score >= 90 THEN 85
    ELSE IF best_score >= 70 THEN 60
    ELSE 40

\* the confidence heuristic
BaseConfidence(best_score) ==
    IF best_score >= 90 THEN 85
    ELSE IF best_score >= 80 THEN 75
    ELSE IF best_score >= 70 THEN 60
    ELSE 40

\* the confidence with 10 added for the spread of the scores in place of 5
ConfidenceWideSpread(best_score, second_score, nplausible) ==
    LET c1 == BaseConfidence(best_score)
        c2 == IF best_score - second_score >= 10 THEN c1 + 10 ELSE c1
        c3 == IF nplausible >= 3 THEN c2 + 5 ELSE c2
    IN  Max2(0, Min2(95, c3))

\* the confidence of the best candidate: the heuristic of its score, 5 more
\* for a spread of 10, 5 more for three plausible values, within 0..95
Confidence(best_score, second_score, nplausible) ==
    LET c1 == BaseConfidence(best_score)
        c2 == IF best_score - second_score >= 10 THEN c1 + 5 ELSE c1
        c3 == IF nplausible >= 3 THEN c2 + 5 ELSE c2
    IN  Max2(0, Min2(95, c3))

\* the part of estimate_food_option after the products are fetched
EstimateFromProducts(raw, prods) ==
    LET result(shown, conf, chosen) ==
            IF conf < 75
            THEN Result("choose", NoOption, shown, conf, "off_low_confidence")
            ELSE Result("ok", chosen, shown, conf, chosen.source)
        robust(best, kcal_vals, weights) ==
            IF Len(kcal_vals) >= 3
            THEN FoodOption(best.name, weighted_median(kcal_vals, weights),
                            best.score, "off_robust", best.serving_g)
            ELSE FoodOption(best.name, best.kcal_100g, best.score, "off_best",
                            best.serving_g)
        aggregate(options, top, plaus, kcal_vals) ==
            result(Slice(options, 1, Min2(ShownN, Len(options))),
                   Confidence(top[1].score, IF Len(top) > 1 THEN top[2].score ELSE 0,
                              Len(kcal_vals)),
                   robust(top[1], kcal_vals, [i \in DOMAIN plaus |-> Max2(1, plaus[i].score)]))
        plausible(options, top, plaus) ==
            aggregate(options, top, plaus, [i \in DOMAIN plaus |-> plaus[i].kcal_100g])
        ranked(options, top) == plausible(options, top, SelectSeq(top, Plausible))
        sorted(options) ==
            IF Len(options) = 0 THEN Result("manual", NoOption, << >>, 0, "off_empty")
            ELSE ranked(options, Slice(options, 1, Min2(TopN, Len(options))))
    IN  sorted(SortByScore(OffOptions(Norm(raw), prods)))

\* the search and the estimate from its products: [raised, result]
EstimateFromSearch(raw, offResp) ==
    LET found == search_openfoodfacts_candidates(raw, offResp)
    IN  [raised |-> found.raised,
         result |-> IF found.raised THEN Raised
                    ELSE EstimateFromProducts(raw, found.products)]

\* food_by_barcode and EstimateFromSearch, computed once for the queries and
\* the outcomes of a behaviour
Queries == {Strip(SplitTable[raw].food) : raw \in RawArgs} \cup CallQueries \cup LookupQueries
BarcodeTable == [q \in Queries |-> [r \in BcResponses |-> food_by_barcode(q, r)]]
Barcode(raw, bcResp) == BarcodeTable[raw][bcResp]
SearchTable ==
    [q \in Queries |-> [r \in OffResponses \cup CallOffResponses |-> EstimateFromSearch(q, r)]]
Search(raw, offResp) == SearchTable[raw][offResp]

\* the part of estimate_food_option after the barcode shortcut with every
\* local candidate taken as it is: the test "c.score >= 85" is left out
EstimateAfterBarcodeNoAsk(raw, cf, offResp) ==
    LET local(c, found) ==
            IF c # NoOption
            THEN Result("ok", c, <<c>>,
                        IF c.source = "custom_exact" THEN 95 ELSE Min2(90, c.score),
                        c.source)
            ELSE found.result
    IN  local(best_custom_match(raw, cf), Search(raw, offResp))

\* the part of estimate_food_option after the barcode shortcut
EstimateAfterBarcode(raw, cf, offResp) ==
    LET local(c, found) ==
            IF c # NoOption
            THEN (IF c.source = "custom_exact" \/ c.score >= 85
                  THEN Result("ok", c, <<c>>,
                              IF c.source = "custom_exact" THEN 95 ELSE Min2(90, c.score),
                              c.source)
                  ELSE Result("choose", NoOption, <<c>>, c.score, "custom_fuzzy_low"))
            ELSE found.result
    IN  local(best_custom_match(raw, cf), Search(raw, offResp))

\* whether estimate_food_option awaits food_by_barcode for the query
LookupMade(query) == Strip(query) # << >> /\ IsBarcode(Strip(query))

\* estimate_food_option(query, custom_foods) with the outcomes of the two
\* HTTP requests it may make: bcResp of the barcode lookup, offResp of the
\* search.  The page size `limit` only shapes the request.
estimate_food_option(query, cf, bcResp, offResp) ==
    LET \* raw: the stripped query; bc: food_by_barcode; rest: what follows
        estimate(raw, bc, rest) ==
            IF raw = << >> THEN Result("manual", NoOption, << >>, 0, "empty")
            ELSE IF IsBarcode(raw) /\ bc.raised THEN Raised
            ELSE IF IsBarcode(raw) /\ bc.opt # NoOption
            THEN Result("ok", bc.opt, <<bc.opt>>, 100, "barcode")
            ELSE rest
    IN  estimate(Strip(query), Barcode(Strip(query), bcResp),
                 EstimateAfterBarcode(Strip(query), cf, offResp))

(***************************************************************************)
(* The bot: state                                                          *)
(***************************************************************************)
VARIABLES
    profile,          \* storage.py: whether users[u]["profile"] is complete
    custom_foods,     \* storage.py: users[u]["custom_foods"]
    logged_calories,  \* storage.py: today's logged_calories of each id, in kcal / 100
    fsm_state,        \* aiogram FSM: the state of the user
    fsm_data,         \* aiogram FSM: the data of the user
    reply,            \* the last message a handler answered the user with
    req,              \* the /log_food request of the pending or just learned flow
    nlogs,            \* the number of store.add_food calls made so far
    keyboard,         \* the most "foodpick" buttons of a keyboard sent to the user
    tasks,            \* the handlers of the user suspended at a network call
    logged_water_ml,  \* storage.py: today's logged_water_ml of each id
    store,            \* storage.py: the file, the lock and the calls in progress
    call              \* the last call of a function of utils.py made on its own

vars == <<profile, custom_foods, logged_calories, fsm_state, fsm_data, reply,
          req, nlogs, keyboard, tasks, logged_water_ml, store, call>>

ProfileStates == {"Profile.weight", "Profile.height", "Profile.age",
                  "Profile.activity", "Profile.city", "Profile.calorie_goal"}
FoodLogStates == {"FoodLog.waiting_choice", "FoodLog.waiting_manual_kcal",
                  "FoodLog.waiting_serving_g", "FoodLog.waiting_grams"}

\* the dict of the FSM data
EmptyData == [k \in {} |-> None]
Has(d, k) == k \in DOMAIN d
\* data.get(k) of a float, a str used as a name, a unit or source, a list
GetF(d, k) == IF Has(d, k) THEN d[k] ELSE None
GetT(d, k) == IF Has(d, k) THEN d[k] ELSE NoneText
GetS(d, k) == IF Has(d, k) THEN d[k] ELSE "None"
GetL(d, k) == IF Has(d, k) THEN d[k] ELSE << >>
\* state.update_data(**upd)
update_data(d, upd) == upd @@ d

\* A message answered: the kind of message ("error" for every message that
\* refuses a command or a button) and, for the message of _finish_food_log,
\* the arguments of that call.  A handler that raises answers nothing.
Reply(kind) ==
    [kind |-> kind, name |-> NoneText, kcal_100 |-> None, grams |-> None]
LoggedReply(name, kcal_100, grams) ==
    [kind |-> "logged", name |-> name, kcal_100 |-> kcal_100, grams |-> grams]

\* the names of the outcomes of the HTTP requests of a /log_food raw
Outcome(raw, bc, off) == [raw |-> raw, bc |-> bc, off |-> off]

\* a /log_food request: its arguments, the names of the outcomes of its HTTP
\* requests, and the FSM state it found (the state of the flow it replaces;
\* kept until the next handler)
Request(raw, bc, off, over) == [raw |-> raw, bc |-> bc, off |-> off, over |-> over]
NoRequest == Request(NoneText, "fail", "fail", "None")

\* The part of the state a handler works on: FSM state and data, the custom
\* foods, the day aggregate, the answer, the count of add_food calls, the
\* request of the flow, and whether the handler accepted a request or
\* learned a serving size.
Ctx(u) ==
    [st |-> fsm_state[u], data |-> fsm_data[u], cf |-> custom_foods[u],
     cal |-> logged_calories[u], reply |-> reply[u], n |-> nlogs[u],
     req |-> req[u], started |-> FALSE, learned |-> FALSE, from_user |-> u,
     water |-> logged_water_ml[u]]

\* The message a callback handler passes on is callback.message, the message
\* of the bot that carries the keyboard: its from_user is the bot, and the
\* day aggregate _finish_food_log adds to is the one kept under the id of the
\* bot.  The FSM context is that of the user who pressed the button.
BotId == 0
CallbackCtx(u) ==
    [Ctx(u) EXCEPT !.cal = logged_calories[BotId], !.water = logged_water_ml[BotId],
                   !.from_user = BotId]

(***************************************************************************)
(* storage.py                                                              *)
(***************************************************************************)
\* _default_day
default_day ==
    [logged_water_ml |-> 0, logged_calories |-> Num(0), burned_calories |-> Num(0),
     workout_extra_water_ml |-> 0, water_target_ml |-> 0, calorie_target |-> 0]

\* The DataStore seen call by call (SpecStore; for the handlers each call of
\* the DataStore is one step on the aggregates and the custom foods).
\*   file  what the JSON file holds for each user, with _ensure_user and
\*         _ensure_day applied: the day of today and the custom foods
\*   lock  the call that holds self._lock, 0 when it is free
\*   ops   the calls in progress: kind, user, arguments, the place reached
\*         ("acquire", "load", "save") and the data loaded
\*   made  the number of calls made
\*   passed, upserted  per user, the calories passed to add_food since the
\*         last reset_today and the record last upserted under each key, by
\*         the calls that have returned
StoreUsers == {1, 2}
StoreKeys == { <<"r", "i", "c", "e">>, <<"m", "i", "l", "k">> }
MaxOps == 2
MaxCalls == 3
NoRecord == [name |-> NoneText, kcal_100g |-> None, serving_g |-> None, source |-> "None"]
IdleOp == [kind |-> "None", user |-> 0, arg |-> << >>, pc |-> "None", data |-> << >>]
NoStore ==
    [file |-> [u \in StoreUsers |-> [day |-> default_day, custom_foods |-> << >>]],
     lock |-> 0,
     ops |-> [p \in 1..MaxOps |-> IdleOp],
     made |-> 0,
     passed |-> [u \in StoreUsers |-> Num(0)],
     upserted |-> [u \in StoreUsers |-> [k \in StoreKeys |-> NoRecord]]]

\* DataStore.add_food: logged_calories += calories
add_food(cal, calories) == FAdd(cal, calories)

\* DataStore.upsert_custom_food storing the record under its name
upsert_custom_food_by_name(cf, key, rec) ==
    IF rec.name \in CfKeys(cf)
    THEN [i \in DOMAIN cf |-> IF cf[i].key = rec.name THEN [key |-> rec.name, rec |-> rec]
                                                       ELSE cf[i]]
    ELSE Append(cf, [key |-> rec.name, rec |-> rec])

\* DataStore.upsert_custom_food: cf[key] = record keeps the place of a key
\* the dict holds and appends a new one
upsert_custom_food(cf, key, rec) ==
    IF key \in CfKeys(cf)
    THEN [i \in DOMAIN cf |-> IF cf[i].key = key THEN [key |-> key, rec |-> rec] ELSE cf[i]]
    ELSE Append(cf, [key |-> key, rec |-> rec])

Record(name, kcal_100g, serving_g) ==
    [name |-> name, kcal_100g |-> kcal_100g, serving_g |-> serving_g, source |-> "manual"]

(***************************************************************************)
(* handlers.py: the food flow                                              *)
(***************************************************************************)
\* calories = kcal_100 * (grams / 100.0), in kcal / 100
Calories(kcal_100, grams) == FMul(kcal_100, grams)

\* _finish_food_log with "await state.set_state(None)" in the place of
\* "await state.clear()": the data of the flow stays
finish_food_log_keeping(c, prof, name, kcal_100, grams) ==
    [c EXCEPT !.cal = add_food(@, Calories(kcal_100, grams)),
              !.n = @ + 1,
              !.st = "None",
              !.reply = IF prof THEN LoggedReply(name, kcal_100, grams) ELSE @]

\* _finish_food_log: add the calories, clear the FSM, answer; without a
\* profile _ensure_targets_for_today raises before the answer
finish_food_log(c, prof, name, kcal_100, grams) ==
    [c EXCEPT !.cal = add_food(@, Calories(kcal_100, grams)),
              !.n = @ + 1,
              !.st = "None",
              !.data = EmptyData,
              !.reply = IF prof THEN LoggedReply(name, kcal_100, grams) ELSE @]

\* _resolve_grams asking for the serving size whether it is known or not
resolve_grams_asking(c, food_name, qty, unit, serving_g) ==
    IF unit \in {"g", "ml"} THEN [grams |-> qty, c |-> c]
    ELSE IF unit \in {"piece", "serving", "auto"}
    THEN [grams |-> None,
          c |-> [c EXCEPT !.st = "FoodLog.waiting_serving_g",
                          !.data = update_data(@, [qty |-> qty, unit |-> unit]),
                          !.reply = Reply("ask_serving_g")]]
    ELSE [grams |-> None, c |-> c]

\* _resolve_grams with the unit auto read as grams
resolve_grams_auto_as_g(c, food_name, qty, unit, serving_g) ==
    IF unit \in {"g", "ml", "auto"} THEN [grams |-> qty, c |-> c]
    ELSE IF unit \in {"piece", "serving"}
    THEN (IF serving_g = None
          THEN [grams |-> None,
                c |-> [c EXCEPT !.st = "FoodLog.waiting_serving_g",
                                !.data = update_data(@, [qty |-> qty, unit |-> unit]),
                                !.reply = Reply("ask_serving_g")]]
          ELSE [grams |-> FMul(qty, serving_g), c |-> c])
    ELSE [grams |-> None, c |-> c]

\* _resolve_grams: [grams, c], grams None when no value is produced
resolve_grams(c, food_name, qty, unit, serving_g) ==
    IF unit \in {"g", "ml"} THEN [grams |-> qty, c |-> c]
    ELSE IF unit \in {"piece", "serving", "auto"}
    THEN (IF serving_g = None
          THEN [grams |-> None,
                c |-> [c EXCEPT !.st = "FoodLog.waiting_serving_g",
                                !.data = update_data(@, [qty |-> qty, unit |-> unit]),
                                !.reply = Reply("ask_serving_g")]]
          ELSE [grams |-> FMul(qty, serving_g), c |-> c])
    ELSE [grams |-> None, c |-> c]

\* the end of _start_food_flow and of food_manual_kcal when the quantity and
\* the unit are known, with r the outcome of _resolve_grams
finish_resolved(r, prof, name, kcal_100) ==
    IF r.grams = None THEN r.c
    ELSE finish_food_log(r.c, prof, name, kcal_100, r.grams)

\* _start_food_flow asking for the grams whether the request gave a
\* quantity or not
start_food_flow_asking(c, prof, chosen) ==
    LET stored(name, kcal_100) ==
            [c EXCEPT !.data = update_data(@,
                [food_name |-> name, kcal_100 |-> kcal_100, serving_g |-> chosen.serving_g,
                 source |-> chosen.source, confidence |-> chosen.score]),
                      !.st = "FoodLog.waiting_grams", !.reply = Reply("ask_grams")]
        named(food_q) == IF TruthyText(chosen.name) THEN chosen.name ELSE food_q
        food_q == IF TruthyText(GetT(c.data, "food_query"))
                  THEN GetT(c.data, "food_query") ELSE chosen.name
    IN  stored(named(food_q), Or(chosen.kcal_100g, Num(0)))

\* _start_food_flow
start_food_flow(c, prof, chosen) ==
    LET \* name: chosen.name or food_q; c1: after state.update_data
        flow(qty, unit, name, kcal_100, c1) ==
            IF qty # None /\ unit # "None"
            THEN finish_resolved(resolve_grams(c1, name, qty, unit, chosen.serving_g),
                                 prof, name, kcal_100)
            ELSE [c1 EXCEPT !.st = "FoodLog.waiting_grams", !.reply = Reply("ask_grams")]
        stored(name, kcal_100) ==
            [c EXCEPT !.data = update_data(@,
                [food_name |-> name, kcal_100 |-> kcal_100, serving_g |-> chosen.serving_g,
                 source |-> chosen.source, confidence |-> chosen.score])]
        named(food_q) == IF TruthyText(chosen.name) THEN chosen.name ELSE food_q
        food_q == IF TruthyText(GetT(c.data, "food_query"))
                  THEN GetT(c.data, "food_query") ELSE chosen.name
    IN  flow(GetF(c.data, "qty"), GetS(c.data, "unit"), named(food_q),
             Or(chosen.kcal_100g, Num(0)),
             stored(named(food_q), Or(chosen.kcal_100g, Num(0))))

\* cmd_log_food without its "await state.clear()": the new request's data is
\* merged into the data of the flow that was pending
log_food_result_merging(c, prof, food_q, qty, unit, res) ==
    LET c1 == [c EXCEPT !.st = "None",
                        !.data = update_data(@, [food_query |-> food_q, qty |-> qty,
                                                 unit |-> unit])]
    IN  IF res.status = "manual"
        THEN [c1 EXCEPT !.st = "FoodLog.waiting_manual_kcal",
                        !.reply = Reply("ask_manual_kcal")]
        ELSE IF res.status = "choose"
        THEN [c1 EXCEPT !.data = update_data(@, [food_options |-> res.options]),
                        !.st = "FoodLog.waiting_choice",
                        !.reply = Reply("ask_choice")]
        ELSE IF res.chosen = NoOption
        THEN [c1 EXCEPT !.st = "FoodLog.waiting_manual_kcal",
                        !.reply = Reply("ask_manual_kcal")]
        ELSE start_food_flow(c1, prof, res.chosen)

\* cmd_log_food from "await state.clear()" on, with the result of
\* estimate_food_option
log_food_result(c, prof, food_q, qty, unit, res) ==
    LET c1 == [c EXCEPT !.st = "None",
                        !.data = [food_query |-> food_q, qty |-> qty, unit |-> unit]]
    IN  IF res.status = "manual"
        THEN [c1 EXCEPT !.st = "FoodLog.waiting_manual_kcal",
                        !.reply = Reply("ask_manual_kcal")]
        ELSE IF res.status = "choose"
        THEN [c1 EXCEPT !.data = update_data(@, [food_options |-> res.options]),
                        !.st = "FoodLog.waiting_choice",
                        !.reply = Reply("ask_choice")]
        ELSE IF res.chosen = NoOption
        THEN [c1 EXCEPT !.st = "FoodLog.waiting_manual_kcal",
                        !.reply = Reply("ask_manual_kcal")]
        ELSE start_food_flow(c1, prof, res.chosen)

\* the guards of cmd_log_food before estimate_food_option: "None" when the
\* request is accepted
log_food_guard(prof, raw) ==
    IF ~prof THEN "need_profile"
    ELSE IF Strip(raw) = << >> THEN "usage"
    ELSE IF SplitArgs(Strip(raw)).food = << >> THEN "no_name"
    ELSE "None"
GuardTable == [raw \in RawArgs |-> log_food_guard(TRUE, raw)]
Accepted(prof, raw) ==
    prof /\ (IF raw \in RawArgs THEN GuardTable[raw] ELSE log_food_guard(TRUE, raw)) = "None"

\* cmd_log_food, the whole handler, with the arguments of the command and
\* the outcomes bc and off of its HTTP requests
log_food(c, prof, raw, bc, off) ==
    LET handled(sp, res) ==
            IF res.status = "raise" THEN c
            ELSE [log_food_result(c, prof, sp.food, sp.qty, sp.unit, res)
                    EXCEPT !.req = Request(raw, bc, off, c.st), !.started = TRUE]
    IN  IF ~Accepted(prof, raw) THEN [c EXCEPT !.reply = Reply("error")]
        ELSE handled(SplitArgs(Strip(raw)),
                     estimate_food_option(SplitArgs(Strip(raw)).food, c.cf,
                                          BcResponse[bc], OffResponse[off]))

\* cb_food_pick taking the first option for every index inside the list
food_pick_first(c, prof, idx) ==
    LET options == GetL(c.data, "food_options")
    IN  IF ~prof THEN [c EXCEPT !.reply = Reply("error")]
        ELSE IF idx < 0 \/ idx >= Len(options)
        THEN [c EXCEPT !.st = "None", !.data = EmptyData,
                       !.reply = Reply("error")]
        ELSE start_food_flow(c, prof, options[1])

\* cb_food_pick with the index idx of the button ("foodpick:<idx>")
food_pick(c, prof, idx) ==
    LET options == GetL(c.data, "food_options")
    IN  IF ~prof THEN [c EXCEPT !.reply = Reply("error")]
        ELSE IF idx < 0 \/ idx >= Len(options)
        THEN [c EXCEPT !.st = "None", !.data = EmptyData,
                       !.reply = Reply("error")]
        ELSE start_food_flow(c, prof, options[idx + 1])

\* cb_food_manual
food_manual(c) ==
    [c EXCEPT !.st = "FoodLog.waiting_manual_kcal", !.reply = Reply("ask_manual_kcal")]

ServingMax == 2000
KcalMax == 2000
GramsMax == 5000

\* data.get("food_name") or data.get("food_query") or "продукт"
FoodName(data) ==
    IF TruthyText(GetT(data, "food_name")) THEN GetT(data, "food_name")
    ELSE IF TruthyText(GetT(data, "food_query")) THEN GetT(data, "food_query")
    ELSE Product

\* food_serving_g with the text of the message
serving_g_answer(c, prof, text) ==
    LET \* existing: custom_foods.get(key) or a new record
        learn(g, qty, name, kcal_100, key, existing) ==
            IF g = None \/ FLe(g, 0) \/ FGt(g, ServingMax)
            THEN [c EXCEPT !.reply = Reply("reprompt")]
            ELSE finish_food_log(
                     [c EXCEPT !.cf = upsert_custom_food(@, key,
                                          [existing EXCEPT !.serving_g = g]),
                               !.learned = TRUE],
                     prof, name, kcal_100, FMul(qty, g))
        record(name, kcal_100, key) ==
            IF key \in CfKeys(c.cf) THEN CfRec(c.cf, key) ELSE Record(name, kcal_100, None)
    IN  learn(ParseFloat(text), Or(GetF(c.data, "qty"), Num(1)), FoodName(c.data),
              Or(GetF(c.data, "kcal_100"), Num(0)), Norm(FoodName(c.data)),
              record(FoodName(c.data), Or(GetF(c.data, "kcal_100"), Num(0)),
                     Norm(FoodName(c.data))))

\* data.get("food_query") or "продукт"
FoodQuery(data) ==
    IF TruthyText(GetT(data, "food_query")) THEN GetT(data, "food_query") ELSE Product

\* food_manual_kcal without its call of store.upsert_custom_food
manual_kcal_answer_forgetting(c, prof, text) ==
    LET remember(kcal, food_q, qty, unit, c1) ==
            IF kcal = None \/ FLe(kcal, 0) \/ FGt(kcal, KcalMax)
            THEN [c EXCEPT !.reply = Reply("reprompt")]
            ELSE IF qty # None /\ unit # "None"
            THEN finish_resolved(resolve_grams(c1, food_q, qty, unit, None), prof, food_q, kcal)
            ELSE [c1 EXCEPT !.st = "FoodLog.waiting_grams", !.reply = Reply("ask_grams")]
        stored(kcal, food_q, key) ==
            [c EXCEPT !.data = update_data(@,
                          [food_name |-> food_q, kcal_100 |-> kcal, serving_g |-> None,
                           source |-> "manual", confidence |-> 100])]
    IN  remember(ParseFloat(text), FoodQuery(c.data), GetF(c.data, "qty"),
                 GetS(c.data, "unit"),
                 stored(ParseFloat(text), FoodQuery(c.data), Norm(FoodQuery(c.data))))

\* food_manual_kcal with the text of the message
manual_kcal_answer(c, prof, text) ==
    LET \* c1: after upsert_custom_food and state.update_data
        remember(kcal, food_q, qty, unit, c1) ==
            IF kcal = None \/ FLe(kcal, 0) \/ FGt(kcal, KcalMax)
            THEN [c EXCEPT !.reply = Reply("reprompt")]
            ELSE IF qty # None /\ unit # "None"
            THEN finish_resolved(resolve_grams(c1, food_q, qty, unit, None), prof, food_q, kcal)
            ELSE [c1 EXCEPT !.st = "FoodLog.waiting_grams", !.reply = Reply("ask_grams")]
        stored(kcal, food_q, key) ==
            [c EXCEPT !.cf = upsert_custom_food(@, key, Record(food_q, kcal, None)),
                      !.data = update_data(@,
                          [food_name |-> food_q, kcal_100 |-> kcal, serving_g |-> None,
                           source |-> "manual", confidence |-> 100])]
    IN  remember(ParseFloat(text), FoodQuery(c.data), GetF(c.data, "qty"),
                 GetS(c.data, "unit"),
                 stored(ParseFloat(text), FoodQuery(c.data), Norm(FoodQuery(c.data))))

\* food_grams with the text of the message (the data holds kcal_100 and
\* food_name in every state that is FoodLog.waiting_grams)
grams_answer(c, prof, text) ==
    LET weigh(grams) ==
            IF grams = None \/ FLe(grams, 0) \/ FGt(grams, GramsMax)
            THEN [c EXCEPT !.reply = Reply("reprompt")]
            ELSE finish_food_log(c, prof, c.data["food_name"], c.data["kcal_100"], grams)
    IN  weigh(ParseFloat(text))

\* cmd_add_food with the arguments of the command
add_food_command(c, prof, args) ==
    LET remember(a) ==
            IF a.error # "None" THEN [c EXCEPT !.reply = Reply("error")]
            ELSE [c EXCEPT !.cf = upsert_custom_food(@, Norm(a.name),
                                        Record(a.name, a.kcal, a.serving_g)),
                           !.reply = Reply("remembered")]
    IN  IF ~prof THEN [c EXCEPT !.reply = Reply("error")]
        ELSE remember(AddArgs(args))

(***************************************************************************)
(* handlers.py and calc.py: the profile dialogue                           *)
(***************************************************************************)
\* parse_int: int(str(s).strip()), None when it raises (an optional sign and
\* digits; the value is kept as a number of the model's floats)
parse_int(s) ==
    LET int(t, body) ==
            IF body # << >> /\ AllDigits(body)
            THEN Num((IF t[1] = "-" THEN -1 ELSE 1) * DigitsToInt(body))
            ELSE None
    IN  int(Strip(s), IF Len(Strip(s)) > 0 /\ Strip(s)[1] \in {"+", "-"}
                      THEN Tail(Strip(s)) ELSE Strip(s))

\* calc_calorie_goal: [raised, value]; int(round(x)) raises for a NaN or an
\* infinite x
calc_calorie_goal(weight_kg, height_cm, age, activity_min) ==
    LET bonus == IF activity_min.v <= 30 THEN 200
                 ELSE IF activity_min.v <= 60 THEN 300 ELSE 400
        bmr100 == 1000 * weight_kg.v + 625 * height_cm.v - 500 * age.v
    IN  IF ~IsNum(weight_kg) \/ ~IsNum(height_cm) THEN [raised |-> TRUE, value |-> 0]
        ELSE [raised |-> FALSE, value |-> RoundHalfEven(bmr100 + 100 * bonus, 100)]

WeightMax == 400
HeightMax == 260
AgeMax == 120
ActivityMax == 1440
CalGoalMax == 10000

\* a prompt of the dialogue stores upd and moves to next unless the answer
\* is rejected
profile_step(c, rejected, upd, next) ==
    IF rejected THEN [c EXCEPT !.reply = Reply("reprompt")]
    ELSE [c EXCEPT !.data = update_data(@, upd), !.st = next, !.reply = Reply("next")]

\* profile_city: the answer after the state is set is lost when
\* calc_calorie_goal raises
city_answer(c, text) ==
    IF Len(Strip(text)) < 2 THEN [c EXCEPT !.reply = Reply("reprompt")]
    ELSE [c EXCEPT !.data = update_data(@, [city |-> Strip(text)]),
                   !.st = "Profile.calorie_goal",
                   !.reply = IF calc_calorie_goal(c.data["weight_kg"], c.data["height_cm"],
                                                  c.data["age"], c.data["activity_min"]).raised
                             THEN @ ELSE Reply("next")]

\* profile_cal_goal: [saved, c]
cal_goal_answer(c, text) ==
    LET no(kind) == [saved |-> FALSE, c |-> [c EXCEPT !.reply = Reply(kind)]]
        \* val: the number answered; suggested: calc_calorie_goal
        goal(val, suggested, cal_goal) ==
            IF val = None THEN no("reprompt")
            ELSE IF suggested.raised THEN [saved |-> FALSE, c |-> c]
            ELSE IF cal_goal <= 0 \/ cal_goal > CalGoalMax THEN no("reprompt")
            ELSE [saved |-> TRUE,
                  c |-> [c EXCEPT !.st = "None", !.data = EmptyData, !.reply = Reply("saved")]]
        answered(val, suggested) ==
            goal(val, suggested, IF val = Num(0) THEN suggested.value ELSE val.v)
    IN  answered(parse_int(text),
                 calc_calorie_goal(c.data["weight_kg"], c.data["height_cm"], c.data["age"],
                                   c.data["activity_min"]))

(***************************************************************************)
(* The bot: one handler at a time                                          *)
(***************************************************************************)
\* the number of store.add_food calls of a behaviour
MaxLogs == 1
\* the number of records of a user's custom foods
MaxFoods == 1

\* The requests estimate_food_option makes: the barcode lookup for a
\* barcode, the search unless the barcode or the custom foods answer.  The
\* outcome of a request that is not made is written as a failure.
BarcodeHits ==
    [raw \in RawArgs |->
        IF IsBarcode(Strip(SplitTable[raw].food))
        THEN [bc \in DOMAIN BcResponse |->
                 BarcodeTable[Strip(SplitTable[raw].food)][BcResponse[bc]].opt # NoOption]
        ELSE [bc \in {"fail"} |-> FALSE]]
Outcomes(prof, raw, cf) ==
    LET requests(hits) ==
            UNION {{Outcome(raw, bc, off) :
                       off \in IF hits[bc] \/ best_custom_match(Strip(SplitArgs(raw).food), cf)
                                                 # NoOption
                               THEN {"fail"} ELSE DOMAIN OffResponse} : bc \in DOMAIN hits}
    IN  IF ~Accepted(prof, raw) THEN {Outcome(raw, "fail", "fail")}
        ELSE requests(BarcodeHits[raw])

\* _food_choice_keyboard: a button "foodpick:<idx>" for each of the first
\* three options and the button "foodmanual".  The keyboards stay in the
\* chat: the user can press a button of any keyboard sent so far.
NoKeyboard == -1
KeyboardMax == 3
Buttons(c) ==
    IF c.reply.kind = "ask_choice" /\ c.st = "FoodLog.waiting_choice"
    THEN Min2(KeyboardMax, Len(GetL(c.data, "food_options")))
    ELSE NoKeyboard

\* A handler suspended at a network call.  kind "log_food": cmd_log_food
\* awaiting the HTTP requests of estimate_food_option, with the arguments raw,
\* the outcomes bc and off to come and the custom foods cf it has read.  kind
\* "serving_g": food_serving_g awaiting the network calls of _finish_food_log,
\* with the key and the serving size g it has stored and the answer msg to
\* send.  late: an update the handler competes with has completed since (a
\* later /log_food, or an /add_food of the same key).
Task(kind, raw, bc, off, cf, key, g, msg) ==
    [kind |-> kind, raw |-> raw, bc |-> bc, off |-> off, cf |-> cf,
     key |-> key, g |-> g, msg |-> msg, late |-> FALSE]
RemoveAt(ts, i) == SubSeq(ts, 1, i - 1) \o SubSeq(ts, i + 1, Len(ts))
Overtake(ts, kind, keys) ==
    [i \in DOMAIN ts |->
        IF ts[i].kind = kind /\ ts[i].key \in keys THEN [ts[i] EXCEPT !.late = TRUE]
        ELSE ts[i]]

\* no function of utils.py has been called on its own
NoCall == [fn |-> "None"]

Init ==
    /\ profile = [u \in UserIds |-> FALSE]
    /\ custom_foods = [u \in UserIds |-> << >>]
    /\ logged_calories = [u \in UserIds \cup {BotId} |-> Num(0)]
    /\ logged_water_ml = [u \in UserIds \cup {BotId} |-> 0]
    /\ store = NoStore
    /\ fsm_state = [u \in UserIds |-> "None"]
    /\ fsm_data = [u \in UserIds |-> EmptyData]
    /\ reply = [u \in UserIds |-> Reply("None")]
    /\ req = [u \in UserIds |-> NoRequest]
    /\ nlogs = [u \in UserIds |-> 0]
    /\ keyboard = [u \in UserIds |-> NoKeyboard]
    /\ tasks = [u \in UserIds |-> << >>]
    /\ call = NoCall

\* The handler leaves the state c to user u.  req[u] is the request of the
\* food flow that is pending or that has just ended with a learned serving
\* size.
Apply(u, result) ==
    \E c \in {result} :
        /\ c.n <= MaxLogs
        /\ Len(c.cf) <= MaxFoods
        /\ fsm_state' = [fsm_state EXCEPT ![u] = c.st]
        /\ fsm_data' = [fsm_data EXCEPT ![u] = c.data]
        /\ custom_foods' = [custom_foods EXCEPT ![u] = c.cf]
        /\ logged_calories' = [logged_calories EXCEPT ![c.from_user] = c.cal]
        /\ logged_water_ml' = [logged_water_ml EXCEPT ![c.from_user] = c.water]
        /\ store' = store
        /\ reply' = [reply EXCEPT ![u] = c.reply]
        /\ nlogs' = [nlogs EXCEPT ![u] = c.n]
        /\ call' = call
        /\ keyboard' = [keyboard EXCEPT ![u] = Max2(@, Buttons(c))]
        /\ req' = [req EXCEPT ![u] =
                      IF \/ c.learned
                         \/ c.started /\ c.st \in FoodLogStates
                         \/ ~c.started /\ c.st \in FoodLogStates
                                       /\ fsm_state[u] \in FoodLogStates
                      THEN (IF c.started THEN c.req ELSE [c.req EXCEPT !.over = "None"])
                      ELSE NoRequest]

\* Handlers are tried in the order of their registration: a message in a
\* Profile state goes to the handler of that state, a message in a FoodLog
\* state goes to the handler of that state unless it is one of the commands
\* registered before it (/set_profile, /add_food, /log_water, /log_food).

set_profile(u) ==
    /\ Apply(u, [Ctx(u) EXCEPT !.st = "Profile.weight", !.data = EmptyData,
                               !.reply = Reply("ask_weight")])
    /\ UNCHANGED <<profile, tasks>>

profile_weight(u, text) ==
    /\ fsm_state[u] = "Profile.weight"
    /\ \E w \in {ParseFloat(text)} :
          Apply(u, profile_step(Ctx(u), w = None \/ FLe(w, 0) \/ FGt(w, WeightMax),
                               [weight_kg |-> w], "Profile.height"))
    /\ UNCHANGED <<profile, tasks>>

profile_height(u, text) ==
    /\ fsm_state[u] = "Profile.height"
    /\ \E h \in {ParseFloat(text)} :
          Apply(u, profile_step(Ctx(u), h = None \/ FLe(h, 0) \/ FGt(h, HeightMax),
                               [height_cm |-> h], "Profile.age"))
    /\ UNCHANGED <<profile, tasks>>

profile_age(u, text) ==
    /\ fsm_state[u] = "Profile.age"
    /\ \E a \in {parse_int(text)} :
          Apply(u, profile_step(Ctx(u), a = None \/ FLe(a, 0) \/ FGt(a, AgeMax),
                               [age |-> a], "Profile.activity"))
    /\ UNCHANGED <<profile, tasks>>

profile_activity(u, text) ==
    /\ fsm_state[u] = "Profile.activity"
    /\ \E m \in {parse_int(text)} :
          Apply(u, profile_step(Ctx(u), m = None \/ FLt(m, 0) \/ FGt(m, ActivityMax),
                               [activity_min |-> m], "Profile.city"))
    /\ UNCHANGED <<profile, tasks>>

profile_city(u, text) ==
    /\ fsm_state[u] = "Profile.city"
    /\ Apply(u, city_answer(Ctx(u), text))
    /\ UNCHANGED <<profile, tasks>>

profile_cal_goal(u, text) ==
    /\ fsm_state[u] = "Profile.calorie_goal"
    /\ \E r \in {cal_goal_answer(Ctx(u), text)} :
          /\ Apply(u, r.c)
          /\ profile' = [profile EXCEPT ![u] = @ \/ r.saved]
    /\ UNCHANGED tasks

cmd_add_food(u, args) ==
    /\ fsm_state[u] \notin ProfileStates
    /\ Apply(u, add_food_command(Ctx(u), profile[u], args))
    /\ \E a \in {AddArgs(args)} :
          tasks' = [tasks EXCEPT ![u] =
                       IF profile[u] /\ a.error = "None"
                       THEN Overtake(@, "serving_g", {Norm(a.name)}) ELSE @]
    /\ UNCHANGED profile

cmd_log_food(u, raw, bc, off) ==
    /\ fsm_state[u] \notin ProfileStates
    /\ Apply(u, log_food(Ctx(u), profile[u], raw, bc, off))
    /\ tasks' = [tasks EXCEPT ![u] =
                    IF Accepted(profile[u], raw)
                    THEN Overtake(@, "log_food", {NoneText}) ELSE @]
    /\ UNCHANGED profile

cb_food_pick(u, idx) ==
    /\ idx < keyboard[u]
    /\ Apply(u, food_pick(CallbackCtx(u), profile[u], idx))
    /\ UNCHANGED <<profile, tasks>>

cb_food_manual(u) ==
    /\ keyboard[u] # NoKeyboard
    /\ Apply(u, food_manual(CallbackCtx(u)))
    /\ UNCHANGED <<profile, tasks>>

food_serving_g(u, text) ==
    /\ fsm_state[u] = "FoodLog.waiting_serving_g"
    /\ Apply(u, serving_g_answer(Ctx(u), profile[u], text))
    /\ UNCHANGED <<profile, tasks>>

food_manual_kcal(u, text) ==
    /\ fsm_state[u] = "FoodLog.waiting_manual_kcal"
    /\ Apply(u, manual_kcal_answer(Ctx(u), profile[u], text))
    /\ UNCHANGED <<profile, tasks>>

food_choice_text_fallback(u, text) ==
    /\ fsm_state[u] = "FoodLog.waiting_choice"
    /\ Apply(u, [Ctx(u) EXCEPT !.reply = Reply("error")])
    /\ UNCHANGED <<profile, tasks>>

food_grams(u, text) ==
    /\ fsm_state[u] = "FoodLog.waiting_grams"
    /\ Apply(u, grams_answer(Ctx(u), profile[u], text))
    /\ UNCHANGED <<profile, tasks>>

\* DataStore.reset_today sets the aggregates of the day to their defaults
cmd_reset_today(u) ==
    /\ fsm_state[u] \notin ProfileStates \cup FoodLogStates
    /\ Apply(u, [Ctx(u) EXCEPT !.cal = Num(0), !.water = 0, !.reply = Reply("reset")])
    /\ UNCHANGED <<profile, tasks>>

Next ==
    \E u \in UserIds :
        \/ set_profile(u)
        \/ \E text \in ProfileTexts :
              \/ profile_weight(u, text)
              \/ profile_height(u, text)
              \/ profile_age(u, text)
              \/ profile_activity(u, text)
              \/ profile_city(u, text)
              \/ profile_cal_goal(u, text)
        \/ \E args \in AddFoodArgs : cmd_add_food(u, args)
        \/ \E raw \in RawArgs : \E o \in Outcomes(profile[u], raw, custom_foods[u]) :
              cmd_log_food(u, raw, o.bc, o.off)
        \/ \E idx \in PickIdx : cb_food_pick(u, idx)
        \/ cb_food_manual(u)
        \/ \E text \in Texts :
              \/ food_serving_g(u, text)
              \/ food_manual_kcal(u, text)
              \/ food_choice_text_fallback(u, text)
              \/ food_grams(u, text)
        \/ cmd_reset_today(u)

Spec == Init /\ [][Next]_vars

(***************************************************************************)
(* The bot: handlers of one user overlapping                               *)
(*                                                                         *)
(* The dispatcher of bot.py handles every update in a task of its own and  *)
(* nothing orders the tasks of one user.  A handler runs without           *)
(* interruption between two network calls (the calls of the DataStore and  *)
(* of the MemoryStorage never suspend: the lock of the store is free       *)
(* whenever it is asked for); at a network call any other handler may run. *)
(***************************************************************************)
\* the handlers of a user suspended at once
MaxTasks == 1

\* the inputs of the behaviours with overlapping handlers
ConcRawArgs == { <<"r", "i", "c", "e">>, <<"r", "i", "c", "e", " ", "2">> }
ConcAddFoodArgs == { <<"r", "i", "c", "e", " ", "8", "9">> }
ConcTexts == { <<"1", "2", "0">> }

\* cmd_log_food up to the HTTP requests of estimate_food_option (the request
\* is accepted and the custom foods read; a request is made for a barcode
\* and when the custom foods hold no match)
cmd_log_food_await(u, raw, bc, off) ==
    /\ fsm_state[u] \notin ProfileStates
    /\ Accepted(profile[u], raw)
    /\ \E q \in {Strip(SplitArgs(Strip(raw)).food)} :
          IsBarcode(q) \/ best_custom_match(q, custom_foods[u]) = NoOption
    /\ Len(tasks[u]) < MaxTasks
    /\ tasks' = [tasks EXCEPT ![u] =
                    Append(@, Task("log_food", raw, bc, off, custom_foods[u],
                                   NoneText, None, Reply("None")))]
    /\ UNCHANGED <<profile, custom_foods, logged_calories, fsm_state, fsm_data,
                   reply, req, nlogs, keyboard, logged_water_ml, store, call>>

\* cmd_log_food from the result of estimate_food_option on
cmd_log_food_resume(u, i) ==
    /\ tasks[u][i].kind = "log_food"
    /\ \E t \in {tasks[u][i]} : \E sp \in {SplitArgs(Strip(t.raw))} :
       \E res \in {estimate_food_option(sp.food, t.cf, BcResponse[t.bc], OffResponse[t.off])} :
          Apply(u, [log_food_result(Ctx(u), profile[u], sp.food, sp.qty, sp.unit, res)
                       EXCEPT !.req = Request(t.raw, t.bc, t.off, fsm_state[u]),
                              !.started = TRUE])
    /\ tasks' = [tasks EXCEPT ![u] = RemoveAt(@, i)]
    /\ UNCHANGED profile

\* food_serving_g up to the network calls of _finish_food_log: the serving
\* size is stored, the calories are added and the FSM is cleared
food_serving_g_await(u, text) ==
    /\ fsm_state[u] = "FoodLog.waiting_serving_g"
    /\ profile[u]
    /\ Len(tasks[u]) < MaxTasks
    /\ \E c \in {serving_g_answer(Ctx(u), profile[u], text)} :
          /\ c.learned
          /\ Apply(u, [c EXCEPT !.reply = reply[u]])
          /\ tasks' = [tasks EXCEPT ![u] =
                          Append(@, Task("serving_g", NoneText, "fail", "fail", << >>,
                                         Norm(c.reply.name), ParseFloat(text), c.reply))]
    /\ UNCHANGED profile

\* food_serving_g from the answer of _finish_food_log on
food_serving_g_answer(u, i) ==
    /\ tasks[u][i].kind = "serving_g"
    /\ reply' = [reply EXCEPT ![u] = tasks[u][i].msg]
    /\ tasks' = [tasks EXCEPT ![u] = RemoveAt(@, i)]
    /\ UNCHANGED <<profile, custom_foods, logged_calories, fsm_state, fsm_data,
                   req, nlogs, keyboard, logged_water_ml, store, call>>

NextConc ==
    \E u \in UserIds :
        \/ set_profile(u)
        \/ \E text \in ProfileTexts :
              \/ profile_weight(u, text)
              \/ profile_height(u, text)
              \/ profile_age(u, text)
              \/ profile_activity(u, text)
              \/ profile_city(u, text)
              \/ profile_cal_goal(u, text)
        \/ \E args \in ConcAddFoodArgs : cmd_add_food(u, args)
        \/ \E raw \in ConcRawArgs : \E o \in Outcomes(profile[u], raw, custom_foods[u]) :
              \/ cmd_log_food(u, raw, o.bc, o.off)
              \/ cmd_log_food_await(u, raw, o.bc, o.off)
        \/ \E i \in DOMAIN tasks[u] :
              \/ cmd_log_food_resume(u, i)
              \/ food_serving_g_answer(u, i)
        \/ \E idx \in PickIdx : cb_food_pick(u, idx)
        \/ cb_food_manual(u)
        \/ \E text \in ConcTexts :
              \/ food_serving_g(u, text)
              \/ food_serving_g_await(u, text)
              \/ food_manual_kcal(u, text)
              \/ food_choice_text_fallback(u, text)
              \/ food_grams(u, text)
        \/ cmd_reset_today(u)

SpecConc == Init /\ [][NextConc]_vars

(***************************************************************************)
(* utils.py: the functions called on their own                             *)
(*                                                                         *)
(* best_custom_match, estimate_food_option, weighted_median,               *)
(* parse_amount_suffix and the other functions called below are functions  *)
(* of their arguments.  A behaviour of SpecCalls makes one call with        *)
(* arguments of the sets below and keeps the call, its arguments and what  *)
(* it returned, in the variable call.                                      *)
(***************************************************************************)
\* the mappings of the calls: no record, one record, or two records in each
\* insertion order, under the keys of the names below
CallNames == { <<"R", "i", "c", "e">>, <<"R", "i", "c", "e", "s">>, <<"R", "i", "s", "e">>,
               <<"R", "i", "d", "e">>, <<"M", "i", "l", "k">> }
CallItem(name) == [key |-> Norm(name), rec |-> Record(name, Num(89), None)]
CallMappings ==
    {<< >>} \cup {<<CallItem(a)>> : a \in CallNames}
            \cup {<<CallItem(x[1]), CallItem(x[2])>> :
                     x \in {y \in CallNames \X CallNames : y[1] # y[2]}}

\* the values and the weights of the calls of weighted_median
MedianValues == {Num(50), Num(60), MaxFloat}
MedianWeights == {-1, 0, 2}
MaxMedianLen == 3
SeqsOf(S, n) == UNION {[1..k -> S] : k \in 1..n}

\* the texts of the calls of parse_amount_suffix: a number, spaces or none,
\* and a suffix
AmountNumbers == { <<"0">>, <<"2">>, <<"1", "0">>, <<"1", "1">>, <<"2", "5", "0">>,
                   << >>, <<"-", "5">>, <<"a", "b", "c">> }
AmountSpaces == { << >>, <<" ">> }
AmountSuffixes ==
    GramSuffixes \cup MlSuffixes \cup PieceSuffixes \cup ServingSuffixes
        \cup { << >>, <<"M", "L">>, <<"k", "g">>, <<"x">> }

\* the texts of the calls of split_food_and_amount: one to three words,
\* joined by one space, or by two with a space in front and one behind
SplitWordSet == { <<"r", "i", "c", "e">>, <<"2">>, <<"2", "5", "0">>, <<"2", "5", "0", "g">>,
                  <<"g">>, <<"p", "c", "s">>, <<"x">> }
MaxWords == 3
RECURSIVE JoinWide(_)
JoinWide(parts) ==
    IF Len(parts) = 0 THEN <<" ">>
    ELSE <<" ">> \o parts[1] \o <<" ">> \o JoinWide(Tail(parts))
SplitInputs ==
    {Join(ws) : ws \in SeqsOf(SplitWordSet, MaxWords)}
        \cup {JoinWide(ws) : ws \in SeqsOf(SplitWordSet, MaxWords)} \cup {<< >>, <<" ">>}

\* the arguments of the calls of _resolve_grams: an amount, a unit of
\* parse_amount_suffix and a serving size or None
GramsQtys == {Num(0), Num(2), Num(250)}
GramsUnits == {"g", "ml", "piece", "serving", "auto"}
GramsServings == {None, Num(0), Num(50)}

\* the texts of the calls of normalize_food_name: latin and cyrillic letters
\* of both cases, the letter yo, a digit, the space, parentheses and
\* punctuation; "cyr_s" and "cyr_i" are stop words
NormAlphabet == {"a", "R", "cyr_s", "CYR_I", "CYR_YO", "1", " ", "(", ")", "-"}
MaxNormLen == 4

\* the mappings of the calls with a barcode lookup: no record, or a record
\* under the key of 8 digits
\* the nutriments of the calls of kcal_from_nutriments: the kcal field absent,
\* zero, positive as a number and as a text, and not a number; the kJ field
\* absent, zero, positive and the least positive float; energy_100g absent
\* or positive; each macronutrient absent, zero or positive, the protein
\* also negative
CallNutriments ==
    [ energy_kcal_100g : {None, Num(0), Num(52), Str(<<"5", "2">>), Str(<<"a", "b", "c">>)},
      energy_kj_100g : {None, Num(0), Num(523), MinFloat},
      energy_100g : {None, Num(1046)},
      proteins_100g : {None, Num(0), Num(1), Num(-1)},
      fat_100g : {None, Num(0), Num(1)},
      carbohydrates_100g : {None, Num(0), Num(1)} ]
LookupMappings == { << >>, <<CallItem(<<"1", "2", "3", "4", "5", "6", "7", "8">>)>> }

Others == <<profile, custom_foods, logged_calories, fsm_state, fsm_data, reply,
            req, nlogs, keyboard, tasks, logged_water_ml, store>>

call_best_custom_match(query, cf) ==
    /\ call = NoCall
    /\ call' = [fn |-> "best_custom_match", query |-> query, cf |-> cf,
                res |-> best_custom_match(query, cf)]
    /\ UNCHANGED Others

call_estimate_food_option(query, cf, offResp) ==
    /\ call = NoCall
    /\ call' = [fn |-> "estimate_food_option", query |-> query, cf |-> cf,
                off |-> offResp,
                res |-> estimate_food_option(query, cf, BcFail, offResp)]
    /\ UNCHANGED Others

call_weighted_median(values, weights) ==
    /\ Len(values) = Len(weights)
    /\ call = NoCall
    /\ call' = [fn |-> "weighted_median", values |-> values, weights |-> weights,
                res |-> weighted_median(values, weights)]
    /\ UNCHANGED Others

call_parse_amount_suffix(num, sp, suffix) ==
    /\ call = NoCall
    /\ call' = [fn |-> "parse_amount_suffix", num |-> num, suffix |-> suffix,
                raw |-> num \o sp \o suffix,
                res |-> parse_amount_suffix(num \o sp \o suffix)]
    /\ UNCHANGED Others

call_split_food_and_amount(args) ==
    /\ call = NoCall
    /\ call' = [fn |-> "split_food_and_amount", args |-> args,
                res |-> split_food_and_amount(args)]
    /\ UNCHANGED Others

\* _resolve_grams called in the state of a conversation that has just
\* stored its food
call_resolve_grams(u, qty, unit, serving_g) ==
    /\ call = NoCall
    /\ call' = [fn |-> "_resolve_grams", before |-> Ctx(u), qty |-> qty, unit |-> unit,
                serving_g |-> serving_g,
                res |-> resolve_grams(Ctx(u), Product, qty, unit, serving_g)]
    /\ UNCHANGED Others

\* normalize_food_name, and normalize_food_name of what it returned
call_normalize_food_name(text) ==
    /\ call = NoCall
    /\ call' = [fn |-> "normalize_food_name", text |-> text,
                res |-> normalize_food_name(text),
                again |-> normalize_food_name(normalize_food_name(text))]
    /\ UNCHANGED Others

\* estimate_food_option with the outcome bcResp of the barcode lookup, and
\* whether the lookup is made
call_estimate_with_lookup(query, cf, bcResp, offResp) ==
    /\ call = NoCall
    /\ call' = [fn |-> "estimate_food_option with lookup", query |-> query, cf |-> cf,
                bc |-> bcResp, off |-> offResp, lookup |-> LookupMade(query),
                res |-> estimate_food_option(query, cf, bcResp, offResp)]
    /\ UNCHANGED Others

\* kcal_from_nutriments on its own, and the candidate list the product loop of
\* estimate_food_option builds from one product named as the query with
\* these nutriments
call_kcal_from_nutriments(nutr) ==
    /\ call = NoCall
    /\ call' = [fn |-> "kcal_from_nutriments", nutr |-> nutr,
                res |-> kcal_from_nutriments(nutr),
                options |-> OffOptions(Norm(<<"r", "i", "c", "e">>),
                                       << [Product100(<<"R", "i", "c", "e">>, 0)
                                             EXCEPT !.nutriments = nutr] >>)]
    /\ UNCHANGED Others

NextCalls ==
    \/ \E nutr \in CallNutriments : call_kcal_from_nutriments(nutr)
    \/ \E query \in LookupQueries : \E cf \in LookupMappings :
       \E bcResp \in BcResponses : \E offResp \in OffResponses :
          call_estimate_with_lookup(query, cf, bcResp, offResp)
    \/ \E text \in SeqsOf(NormAlphabet, MaxNormLen) : call_normalize_food_name(text)
    \/ \E u \in UserIds : \E qty \in GramsQtys : \E unit \in GramsUnits :
       \E serving_g \in GramsServings :
          call_resolve_grams(u, qty, unit, serving_g)
    \/ \E args \in SplitInputs : call_split_food_and_amount(args)
    \/ \E query \in CallQueries : \E cf \in CallMappings :
          call_best_custom_match(query, cf)
    \/ \E query \in CallQueries : \E cf \in CallMappings : \E offResp \in CallOffResponses :
          call_estimate_food_option(query, cf, offResp)
    \/ \E values \in SeqsOf(MedianValues, MaxMedianLen) :
       \E weights \in SeqsOf(MedianWeights, MaxMedianLen) :
          call_weighted_median(values, weights)
    \/ \E num \in AmountNumbers : \E sp \in AmountSpaces : \E suffix \in AmountSuffixes :
          call_parse_amount_suffix(num, sp, suffix)

SpecCalls == Init /\ [][NextCalls]_vars

C2_RepromptOnBadNumber ==
    [][\A u \in UserIds : \A text \in Texts :
          LET x == ParseFloat(text)
              bad(max) == ~(IsNum(x) /\ x.v > 0 /\ x.v <= max)
              refused == /\ reply'[u] = Reply("reprompt")
                         /\ fsm_state'[u] = fsm_state[u]
                         /\ fsm_data'[u] = fsm_data[u]
                         /\ custom_foods'[u] = custom_foods[u]
                         /\ logged_calories'[u] = logged_calories[u]
          IN  /\ (bad(KcalMax) /\ food_manual_kcal(u, text)) => refused
              /\ (bad(ServingMax) /\ food_serving_g(u, text)) => refused
              /\ (bad(GramsMax) /\ food_grams(u, text)) => refused]_vars

\* C3: every entry that reaches the day aggregate was computed from a grams
\* value that is greater than 0 and at most 5000, however the grams were
\* obtained (the answer of _finish_food_log carries the grams of the entry).
C3_LoggedGramsInRange ==
    \A u \in UserIds :
        reply[u].kind = "logged"
        => /\ IsNum(reply[u].grams)
           /\ reply[u].grams.v > 0
           /\ reply[u].grams.v <= GramsMax

\* C4: every candidate estimate_food_option returns for a request the user
\* can make (chosen or listed in options) and every kcal_100 and option
\* placed in the FSM data has kcal per 100 g greater than 0.
C4_KcalPositive ==
    \A u \in UserIds :
        /\ Has(fsm_data[u], "kcal_100") => FGt(fsm_data[u]["kcal_100"], 0)
        /\ \A i \in DOMAIN GetL(fsm_data[u], "food_options") :
               FGt(fsm_data[u]["food_options"][i].kcal_100g, 0)
        /\ \A raw \in RawArgs :
               Accepted(profile[u], raw) =>
               \A o \in Outcomes(profile[u], raw, custom_foods[u]) :
                  LET res == estimate_food_option(SplitArgs(Strip(raw)).food, custom_foods[u],
                                                  BcResponse[o.bc], OffResponse[o.off])
                  IN  /\ res.chosen # NoOption => FGt(res.chosen.kcal_100g, 0)
                      /\ \A i \in DOMAIN res.options : FGt(res.options[i].kcal_100g, 0)

\* C5: for every request the user can make, every custom-food mapping reached
\* and every outcome of the external lookups, the confidence of the result of
\* estimate_food_option is at most 95.
C5_ConfidenceAtMost95 ==
    \A u \in UserIds : \A raw \in RawArgs :
        Accepted(profile[u], raw) =>
        \A o \in Outcomes(profile[u], raw, custom_foods[u]) :
           estimate_food_option(SplitArgs(Strip(raw)).food, custom_foods[u],
                                BcResponse[o.bc], OffResponse[o.off]).confidence <= 95

\* C8: end-to-end serving learning.  For a user whose mapping holds a record
\* under the key K of the food with kcal k and no serving size, /log_food K
\* with a piece/serving amount q moves the FSM to waiting_serving_g and logs
\* nothing; a valid answer g at waiting_serving_g then adds exactly k*q*g/100
\* calories, clears the FSM and leaves the record of the food's key with
\* serving_g = g and its kcal_100g and name unchanged (a new record with the
\* flow's kcal_100 when the key has none).
C8_ServingLearning ==
    [][\A u \in UserIds :
          /\ \A raw \in RawArgs :
                LET sp == SplitArgs(Strip(raw))
                    K == Norm(sp.food)
                IN  (/\ req'[u].raw = raw
                     /\ Accepted(profile[u], raw)
                     /\ sp.qty # None /\ sp.unit \in {"piece", "serving"}
                     /\ K \in CfKeys(custom_foods[u])
                     /\ CfRec(custom_foods[u], K).serving_g = None
                     /\ \E o \in Outcomes(profile[u], raw, custom_foods[u]) :
                           cmd_log_food(u, raw, o.bc, o.off))
                    => /\ fsm_state'[u] = "FoodLog.waiting_serving_g"
                       /\ logged_calories'[u] = logged_calories[u]
                       /\ nlogs'[u] = nlogs[u]
          /\ \A text \in Texts :
                LET g == ParseFloat(text)
                    k == GetF(fsm_data[u], "kcal_100")
                    q == GetF(fsm_data[u], "qty")
                    K == Norm(GetT(fsm_data[u], "food_name"))
                    cf == custom_foods[u]
                    cf2 == custom_foods'[u]
                IN  (/\ fsm_state[u] = "FoodLog.waiting_serving_g"
                     /\ IsNum(g) /\ g.v > 0 /\ g.v <= ServingMax
                     /\ food_serving_g(u, text))
                    => /\ logged_calories'[u]
                            = FAdd(logged_calories[u], FMul(k, FMul(q, g)))
                       /\ fsm_state'[u] = "None"
                       /\ fsm_data'[u] = EmptyData
                       /\ K \in CfKeys(cf2)
                       /\ CfRec(cf2, K).serving_g = g
                       /\ K \in CfKeys(cf)
                             => /\ CfRec(cf2, K).kcal_100g = CfRec(cf, K).kcal_100g
                                /\ CfRec(cf2, K).name = CfRec(cf, K).name
                       /\ K \notin CfKeys(cf) => CfRec(cf2, K).kcal_100g = k]_vars

\* C9: future automatic conversion.  After a flow has passed through
\* waiting_serving_g and the user supplied a serving size, the same /log_food
\* request (same text with a piece/serving/ambiguous amount, same outcomes of
\* the external requests) does not enter waiting_serving_g again.
C9_NoSecondServingPrompt ==
    [][\A u \in UserIds :
          (/\ req[u] # NoRequest
           /\ fsm_state[u] = "None"
           /\ SplitArgs(Strip(req[u].raw)).unit \in {"piece", "serving", "auto"}
           /\ cmd_log_food(u, req[u].raw, req[u].bc, req[u].off))
          => fsm_state'[u] # "FoodLog.waiting_serving_g"]_vars

\* C10: Resolved is terminal.  Whenever a food flow completes (store.add_food
\* is called), logged_calories grows by exactly kcal_100 * grams / 100 for
\* the kcal_100 and the grams of the flow -- those _finish_food_log answers
\* with, and at the grams prompt the kcal_100 of the data and the grams of the
\* answer -- and afterwards the FSM state is none and the data is empty.
C10_ResolvedTerminal ==
    [][\A u \in UserIds :
          nlogs'[u] = nlogs[u] + 1
          => /\ fsm_state'[u] = "None"
             /\ fsm_data'[u] = EmptyData
             /\ reply'[u].kind = "logged"
             /\ logged_calories'[u]
                  = FAdd(logged_calories[u], FMul(reply'[u].kcal_100, reply'[u].grams))
             /\ \A text \in Texts :
                   food_grams(u, text)
                   => /\ reply'[u].kcal_100 = fsm_data[u]["kcal_100"]
                      /\ reply'[u].grams = ParseFloat(text)]_vars

\* a flow has completed at the grams prompt with a positive number of
\* calories
C10_Witness ==
    \E u \in UserIds :
        /\ nlogs[u] = 1
        /\ reply[u].kind = "logged"
        /\ fsm_state[u] = "None"
        /\ fsm_data[u] = EmptyData
        /\ req[u] = NoRequest
        /\ IsNum(logged_calories[u])
        /\ logged_calories[u].v > 0
        /\ logged_calories[u] = FMul(reply[u].kcal_100, reply[u].grams)

\* C6: learning a serving size loses no update.  When another update of the
\* record of the same key (an /add_food) has completed while food_serving_g
\* was running, the record stored when food_serving_g ends holds the learned
\* serving_g beside the fields of the other update.
C6_LearnedServingKept ==
    [][\A u \in UserIds : \A i \in DOMAIN tasks[u] :
          (tasks[u][i].late /\ food_serving_g_answer(u, i))
          => /\ tasks[u][i].key \in CfKeys(custom_foods'[u])
             /\ CfRec(custom_foods'[u], tasks[u][i].key).serving_g = tasks[u][i].g]_vars

\* C7: turns of one user do not interleave.  When a /log_food that was
\* awaiting the external search goes on after a later /log_food of the user
\* has been handled, the FSM state and data that remain are those of the
\* later request: the earlier handler does not change them.
C7_LastRequestRemains ==
    [][\A u \in UserIds : \A i \in DOMAIN tasks[u] :
          (tasks[u][i].late /\ cmd_log_food_resume(u, i))
          => /\ fsm_state'[u] = fsm_state[u]
             /\ fsm_data'[u] = fsm_data[u]]_vars

\* C11: without network.  When the barcode lookup and the search fail
\* (transport error or timeout) and no key of the user's mapping scores 70 or
\* more against the query, estimate_food_option returns status manual with no
\* chosen candidate, for every query of an accepted request, the queries made
\* of 8 to 14 digits included.
C11_NoNetworkManual ==
    \A u \in UserIds : \A raw \in RawArgs :
        LET q == SplitArgs(Strip(raw)).food
            cf == custom_foods[u]
            res == estimate_food_option(q, cf, BcFail, OffFail)
        IN  (/\ Accepted(profile[u], raw)
             /\ \A i \in DOMAIN cf : Score(Norm(q), cf[i].key) < FuzzyMin)
            => /\ res.status = "manual"
               /\ res.chosen = NoOption
               /\ res.options = << >>

\* a request for a barcode has ended at the manual prompt with both requests
\* failed, the mapping holding a record that does not match
C11_Witness ==
    \E u \in UserIds :
        /\ fsm_state[u] = "FoodLog.waiting_manual_kcal"
        /\ req[u] # NoRequest
        /\ IsBarcode(SplitArgs(Strip(req[u].raw)).food)
        /\ req[u].bc = "fail" /\ req[u].off = "fail"
        /\ Len(custom_foods[u]) > 0

\* C12: the retrievers never raise.  For every outcome of the HTTP request a
\* /log_food meets (transport error, status other than 200, a 200 response
\* whose body is not JSON) search_openfoodfacts_candidates and
\* food_by_barcode return to estimate_food_option, which returns a result to
\* the handler.
C12_RetrieversNeverRaise ==
    \A u \in UserIds : \A raw \in RawArgs :
        Accepted(profile[u], raw) =>
        \A o \in Outcomes(profile[u], raw, custom_foods[u]) :
           LET q == Strip(SplitArgs(Strip(raw)).food)
           IN  /\ ~Search(q, OffResponse[o.off]).raised
               /\ ~Barcode(q, BcResponse[o.bc]).raised
               /\ estimate_food_option(q, custom_foods[u], BcResponse[o.bc],
                                       OffResponse[o.off]).status # "raise"

\* C13: exact key match.  For every query of an accepted request, every
\* mapping reached and every outcome of the external requests, when the
\* normalised query is a key of the mapping estimate_food_option returns
\* status ok with confidence 95 and the chosen candidate of source
\* custom_exact and score 100, whatever the search would return.
C13_ExactMatchResolved ==
    \A u \in UserIds : \A raw \in RawArgs :
        Accepted(profile[u], raw) =>
        \A o \in Outcomes(profile[u], raw, custom_foods[u]) :
           LET q == SplitArgs(Strip(raw)).food
               cf == custom_foods[u]
               res == estimate_food_option(q, cf, BcResponse[o.bc], OffResponse[o.off])
           IN  Norm(q) \in CfKeys(cf)
               => /\ res.status = "ok"
                  /\ res.confidence = 95
                  /\ res.chosen.source = "custom_exact"
                  /\ res.chosen.score = 100
                  /\ \A off \in DOMAIN OffResponse :
                        estimate_food_option(q, cf, BcResponse[o.bc], OffResponse[off]) = res

(***************************************************************************)
(* Properties of the functions of utils.py                                 *)
(***************************************************************************)
\* the greatest of the scores of the keys of cf against the normalised query
BestScore(qn, cf) ==
    CHOOSE s \in {Score(qn, cf[i].key) : i \in DOMAIN cf} :
        \A i \in DOMAIN cf : Score(qn, cf[i].key) <= s

\* C14: local fuzzy policy.  When the mapping holds no key equal to the
\* normalised query and s is the best score of its keys (the barcode
\* shortcut not returning): s >= 85 gives status ok with confidence
\* min(90, s) and the local candidate chosen; 70 <= s < 85 gives status
\* choose with that candidate as the only option and nothing chosen; s < 70
\* gives no local result, and estimate_food_option returns what it returns
\* with an empty mapping, the outcome of the external search.
C14_LocalFuzzyPolicy ==
    (call.fn \in {"estimate_food_option", "best_custom_match"}
        /\ call.cf # << >> /\ Norm(call.query) \notin CfKeys(call.cf))
    => LET s == BestScore(Norm(call.query), call.cf)
           res == call.res
       IN  IF call.fn = "best_custom_match"
           THEN /\ s < 70 => res = NoOption
                /\ s >= 70 => res.source = "custom_fuzzy" /\ res.score = s
           ELSE /\ s >= 85 => /\ res.status = "ok"
                              /\ res.confidence = Min2(90, s)
                              /\ res.chosen.source = "custom_fuzzy"
                              /\ res.chosen.score = s
                              /\ res.options = <<res.chosen>>
                /\ (s >= 70 /\ s < 85) => /\ res.status = "choose"
                                          /\ res.chosen = NoOption
                                          /\ Len(res.options) = 1
                                          /\ res.options[1].source = "custom_fuzzy"
                                          /\ res.options[1].score = s
                                          /\ res.confidence = s
                /\ s < 70 => res = estimate_food_option(call.query, << >>, BcFail, call.off)

\* a mapping of two keys, the better of score 75: the candidate is offered
\* as the only option
C14_Witness ==
    /\ call.fn = "estimate_food_option"
    /\ Len(call.cf) = 2
    /\ BestScore(Norm(call.query), call.cf) = 75
    /\ call.res.status = "choose"
    /\ call.res.note = "custom_fuzzy_low"

\* C15: the fuzzy tie-break is deterministic.  Two mappings of the same
\* records in different insertion orders give the same candidate of
\* best_custom_match.
C15_TieBreakDeterministic ==
    (call.fn = "best_custom_match" /\ Len(call.cf) = 2)
    => call.res = best_custom_match(call.query, Reverse(call.cf))

\* the candidates of an estimate_food_option call that reaches the external
\* search, in the order of their scores, and the five it keeps
CallRanked == SortByScore(OffOptions(Norm(call.query), call.off.products))
CallTop == Slice(CallRanked, 1, Min2(5, Len(CallRanked)))
\* a call whose result is made from the candidates of the search
CallFromSearch ==
    /\ call.fn = "estimate_food_option"
    /\ call.cf = << >>
    /\ call.off.kind = "ok"
    /\ Len(OffOptions(Norm(call.query), call.off.products)) > 0

\* C16: external confidence scoring.  With b the best score of the five
\* candidates kept and the second best taken as 0 for a single candidate,
\* the confidence is base(b), plus 5 when b - second >= 10, plus 5 when at
\* least 3 of the five are plausible, clamped to [0, 95]; base is 40 below
\* 70, 60 from 70, 75 from 80 and 85 from 90.  A confidence of 75 or more
\* gives status ok with a chosen candidate, a lower one status choose with
\* nothing chosen; the options are the three candidates of the best scores.
C16_ExternalConfidence ==
    CallFromSearch =>
    LET b == CallTop[1].score
        second == IF Len(CallTop) > 1 THEN CallTop[2].score ELSE 0
        base == IF b < 70 THEN 40 ELSE IF b < 80 THEN 60 ELSE IF b < 90 THEN 75 ELSE 85
        sum == base + (IF b - second >= 10 THEN 5 ELSE 0)
                    + (IF Len(SelectSeq(CallTop, Plausible)) >= 3 THEN 5 ELSE 0)
        conf == IF sum > 95 THEN 95 ELSE IF sum < 0 THEN 0 ELSE sum
        res == call.res
    IN  /\ \A i \in DOMAIN CallRanked : CallRanked[i].score <= b
        /\ res.confidence = conf
        /\ conf >= 75 => /\ res.status = "ok"
                         /\ res.chosen # NoOption
                         /\ res.chosen.name = CallTop[1].name
                         /\ res.chosen.score = b
        /\ conf < 75 => res.status = "choose" /\ res.chosen = NoOption
        /\ res.options = Slice(CallRanked, 1, Min2(3, Len(CallRanked)))
        /\ \A i \in DOMAIN res.options : \A j \in DOMAIN CallRanked :
               j > Len(res.options) => CallRanked[j].score <= res.options[i].score

\* the confidence is clamped: a best score of 90 or more, a spread of 10 or
\* more and three plausible values
C16_Witness ==
    /\ CallFromSearch
    /\ call.res.confidence = 95
    /\ call.res.status = "ok"
    /\ Len(CallRanked) > 5

\* the plausible ones of the five candidates kept
CallPlausible == SelectSeq(CallTop, Plausible)

\* The weighted median of the plausible values under the weights Weight: the
\* values in ascending order, the first at which the cumulative weight
\* reaches half of the total, that is the least value v with twice the
\* weight of the values up to v not below the total.
WeightUpTo(v, Weight(_)) ==
    SeqSum([i \in DOMAIN CallPlausible |->
               IF CallPlausible[i].kcal_100g.v <= v THEN Weight(CallPlausible[i]) ELSE 0])
MedianUnder(Weight(_)) ==
    LET vals == {CallPlausible[i].kcal_100g.v : i \in DOMAIN CallPlausible}
        total == SeqSum([i \in DOMAIN CallPlausible |-> Weight(CallPlausible[i])])
        reached == {v \in vals : 2 * WeightUpTo(v, Weight) >= total}
    IN  CHOOSE v \in reached : \A w \in reached : v <= w

\* what C17 states of a call with a chosen candidate, for the weights Weight
AggregationUnder(Weight(_)) ==
    (CallFromSearch /\ call.res.status = "ok") =>
    LET chosen == call.res.chosen
    IN  /\ chosen.name = CallTop[1].name
        /\ chosen.serving_g = CallTop[1].serving_g
        /\ IF Len(CallPlausible) >= 3
           THEN /\ chosen.source = "off_robust"
                /\ chosen.kcal_100g = Num(MedianUnder(Weight))
                /\ \E i \in DOMAIN CallPlausible : chosen.kcal_100g = CallPlausible[i].kcal_100g
                /\ chosen.kcal_100g.v > 0 /\ chosen.kcal_100g.v < 900
           ELSE /\ chosen.source = "off_best"
                /\ chosen.kcal_100g = CallTop[1].kcal_100g

\* C17: robust aggregation.  Among the five candidates of the best scores,
\* when at least 3 have 0 < kcal < 900 the chosen candidate carries the
\* weighted median of those values weighted by their match scores, one of
\* the plausible values, with the name and the serving size of the first
\* candidate and the source off_robust; otherwise it carries the kcal of
\* the first candidate with the source off_best.
C17_RobustAggregation == AggregationUnder(LAMBDA o : o.score)

\* C17 as the code has it: the weight of a value is its match score and at
\* least 1 (a candidate of score 0 weighs 1).
C17_RobustAggregationFloored == AggregationUnder(LAMBDA o : IF o.score >= 1 THEN o.score ELSE 1)

\* a robust value is chosen among three plausible values of which one has
\* the score 0, and it is not the value of the first candidate
C17_Witness ==
    /\ CallFromSearch
    /\ call.res.status = "ok"
    /\ call.res.chosen.source = "off_robust"
    /\ \E i \in DOMAIN CallPlausible : CallPlausible[i].score = 0
    /\ call.res.chosen.kcal_100g # CallTop[1].kcal_100g

\* C18: weighted_median of a non-empty list whose values all equal v returns
\* v for every list of weights of the same length, a total weight of zero
\* or below included.
C18_EqualValuesMedian ==
    (call.fn = "weighted_median"
        /\ \A i \in DOMAIN call.values : call.values[i] = call.values[1])
    => call.res = call.values[1]

\* C19: quantity classification by parse_amount_suffix, for a text made of
\* a number (digits), optional spaces and a suffix: no suffix gives auto for
\* a number <= 10 and g above; a gram suffix gives g, a milliliter suffix
\* ml, a piece suffix piece, a serving suffix serving, each with the value
\* of the number; any other text gives no quantity.  The unit auto comes
\* only from a number <= 10 without a suffix.
C19_QuantityClassification ==
    call.fn = "parse_amount_suffix" =>
    LET isNumber == call.num # << >> /\ AllDigits(call.num)
        val == DigitsToInt(call.num)
        suffix == Lower(call.suffix)
        unit == IF ~isNumber THEN "None"
                ELSE IF suffix = << >> THEN (IF val <= 10 THEN "auto" ELSE "g")
                ELSE IF suffix \in GramSuffixes THEN "g"
                ELSE IF suffix \in MlSuffixes THEN "ml"
                ELSE IF suffix \in PieceSuffixes THEN "piece"
                ELSE IF suffix \in ServingSuffixes THEN "serving"
                ELSE "None"
    IN  /\ call.res.unit = unit
        /\ call.res.value = IF unit = "None" THEN None ELSE Num(val)
        /\ call.res.unit = "auto" => (isNumber /\ val <= 10 /\ call.suffix = << >>)

\* the number 10 without a suffix is ambiguous, the greatest such
C19_Witness ==
    /\ call.fn = "parse_amount_suffix"
    /\ call.raw = <<"1", "0">>
    /\ call.res = [value |-> Num(10), unit |-> "auto"]

\* C20: every qty that split_food_and_amount produces and cmd_log_food
\* stores in the FSM data is an amount greater than 0.
C20_QuantityPositive ==
    \A u \in UserIds :
        (Has(fsm_data[u], "qty") /\ fsm_data[u]["qty"] # None)
        => FGt(fsm_data[u]["qty"], 0)

\* the words of the text of a call of split_food_and_amount
CallWords == Split(Strip(call.args))
\* the number of words at the end of the text taken as the amount: the last
\* word if it parses as an amount, else the last two if they do, else none
CallTail ==
    LET n == Len(CallWords)
    IN  IF n < 2 THEN 0
        ELSE IF parse_amount_suffix(CallWords[n]).unit # "None" THEN 1
        ELSE IF parse_amount_suffix(CallWords[n - 1] \o <<" ">> \o CallWords[n]).unit # "None"
             THEN 2
        ELSE 0

\* C21: split_food_and_amount takes the last word as the amount if it
\* parses, else the last two words joined if they parse; the food name is
\* then the words before them.  When neither parses, or the text has one
\* word, the whole text is the food name and there is no quantity.  In each
\* case the words of the food name followed by the words taken as the amount
\* are the words of the text.
C21_SplitFoodAndAmount ==
    call.fn = "split_food_and_amount" =>
    LET n == Len(CallWords)
        tail == Join(Slice(CallWords, n - CallTail + 1, n))
    IN  /\ IF CallTail = 0
           THEN /\ call.res.food = Strip(call.args)
                /\ call.res.qty = None /\ call.res.unit = "None"
           ELSE /\ call.res.food = Join(Slice(CallWords, 1, n - CallTail))
                /\ call.res.qty = parse_amount_suffix(tail).value
                /\ call.res.unit = parse_amount_suffix(tail).unit
                /\ call.res.qty # None
        /\ Split(call.res.food) \o Slice(CallWords, n - CallTail + 1, n) = CallWords

\* "rice 250 g": the last word is no amount, the last two are
C21_Witness ==
    /\ call.fn = "split_food_and_amount"
    /\ call.args = <<"r", "i", "c", "e", " ", "2", "5", "0", " ", "g">>
    /\ call.res = [food |-> <<"r", "i", "c", "e">>, qty |-> Num(250), unit |-> "g"]

\* C22: _resolve_grams.  For the unit g or ml the grams are the amount; for
\* the unit piece, serving or auto with a serving size s they are the amount
\* times s; for those units without a serving size no grams are produced,
\* nothing is added to the day aggregate, and the FSM goes to
\* waiting_serving_g with the amount and the unit kept in its data.
C22_GramsConversion ==
    call.fn = "_resolve_grams" =>
    LET r == call.res
    IN  /\ r.c.cal = call.before.cal /\ r.c.n = call.before.n
        /\ IF call.unit \in {"g", "ml"}
           THEN r.grams = call.qty /\ r.c = call.before
           ELSE IF call.serving_g # None
           THEN r.grams = FMul(call.qty, call.serving_g) /\ r.c = call.before
           ELSE /\ r.grams = None
                /\ r.c.st = "FoodLog.waiting_serving_g"
                /\ GetF(r.c.data, "qty") = call.qty
                /\ GetS(r.c.data, "unit") = call.unit

\* 2 pieces of 50 g are 100 g
C22_Witness ==
    /\ call.fn = "_resolve_grams"
    /\ call.qty = Num(2) /\ call.unit = "piece" /\ call.serving_g = Num(50)
    /\ call.res.grams = Num(100)

\* C23: normalize_food_name is idempotent: normalize_food_name of what it
\* returned for a text is what it returned.
C23_NormalizeIdempotent ==
    call.fn = "normalize_food_name" => call.again = call.res

\* a text with a stop word, a capital and the letter yo, which
\* normalize_food_name shortens to two letters
C23_Witness ==
    /\ call.fn = "normalize_food_name"
    /\ call.text = <<"CYR_I", " ", "R", "CYR_YO">>
    /\ call.res = <<"r", "cyr_e">>
    /\ call.again = call.res

\* user u holds a record of kcal kcal/100 g under the key of the food query
\* of the data d
HoldsRecord(cf, d, kcal) ==
    \E i \in DOMAIN cf : /\ cf[i].key = Norm(d["food_query"])
                         /\ cf[i].rec.kcal_100g = kcal

\* C24: a kcal value in (0, 2000] answered in waiting_manual_kcal is stored
\* by the handler that receives it: when that handler is done, whatever it
\* asks next, the custom foods of the user hold a record of that kcal_100g
\* under the key normalize_food_name(food_query).  A /set_profile or a new
\* /log_food that abandons a food flow changes no record.
C24_ManualKcalPersisted ==
    [][\A u \in UserIds :
          /\ \A text \in Texts :
                (/\ fsm_state[u] = "FoodLog.waiting_manual_kcal"
                 /\ Has(fsm_data[u], "food_query")
                 /\ FGt(ParseFloat(text), 0) /\ FLe(ParseFloat(text), 2000)
                 /\ food_manual_kcal(u, text))
                => HoldsRecord(custom_foods'[u], fsm_data[u], ParseFloat(text))
          /\ (/\ fsm_state[u] \in FoodLogStates
              /\ custom_foods'[u] # custom_foods[u])
             => ~(\/ set_profile(u)
                  \/ \E raw \in RawArgs : \E o \in Outcomes(profile[u], raw, custom_foods[u]) :
                        cmd_log_food(u, raw, o.bc, o.off))]_vars

\* 120 kcal answered for "rice" with no quantity: the record is stored and
\* the handler has asked for the grams
C24_Witness ==
    \E u \in UserIds :
        /\ fsm_state[u] = "FoodLog.waiting_grams"
        /\ reply[u].kind = "ask_grams"
        /\ GetS(fsm_data[u], "source") = "manual"
        /\ Has(fsm_data[u], "food_query")
        /\ HoldsRecord(custom_foods[u], fsm_data[u], Num(120))

\* C25: while the FSM of a user is in waiting_serving_g, the data of the
\* conversation holds an amount, a unit that is piece, serving or auto, and
\* no serving size (serving_g is None).
C25_WaitingServingData ==
    \A u \in UserIds :
        fsm_state[u] = "FoodLog.waiting_serving_g"
        => /\ Has(fsm_data[u], "qty") /\ fsm_data[u]["qty"] # None
           /\ GetS(fsm_data[u], "unit") \in {"piece", "serving", "auto"}
           /\ GetF(fsm_data[u], "serving_g") = None

\* a food found with its kcal and no serving size, 2 of them asked for: the
\* FSM waits for the serving size
C25_Witness ==
    \E u \in UserIds :
        /\ fsm_state[u] = "FoodLog.waiting_serving_g"
        /\ GetF(fsm_data[u], "qty") = Num(2)
        /\ GetS(fsm_data[u], "unit") = "auto"
        /\ GetS(fsm_data[u], "source") # "manual"
        /\ Has(fsm_data[u], "kcal_100")

\* in waiting_grams the data holds no quantity, and a kcal_100 and a
\* food_name
WaitingGramsData(u) ==
    fsm_state[u] = "FoodLog.waiting_grams"
    => /\ GetF(fsm_data[u], "qty") = None \/ GetS(fsm_data[u], "unit") = "None"
       /\ GetF(fsm_data[u], "kcal_100") # None
       /\ Has(fsm_data[u], "food_name") /\ GetT(fsm_data[u], "food_name") # NoneText

\* C26: while the FSM of a user is in waiting_grams, the request of the
\* flow gave no quantity (qty or unit is None in the data) and the data
\* holds a kcal_100 and a food_name; an answer of grams in (0, 5000] then
\* logs the food and ends the flow in that one step.
C26_WaitingGrams ==
    /\ [](\A u \in UserIds : WaitingGramsData(u))
    /\ [][\A u \in UserIds : \A text \in Texts :
              (/\ fsm_state[u] = "FoodLog.waiting_grams"
               /\ FGt(ParseFloat(text), 0) /\ FLe(ParseFloat(text), 5000)
               /\ food_grams(u, text))
              => /\ fsm_state'[u] = "None" /\ fsm_data'[u] = EmptyData
                 /\ nlogs'[u] = nlogs[u] + 1
                 /\ logged_calories'[u] =
                       FAdd(logged_calories[u],
                            FMul(fsm_data[u]["kcal_100"], ParseFloat(text)))]_vars

\* "rice" asked for with no quantity and found: the FSM waits for the grams
C26_Witness ==
    \E u \in UserIds :
        /\ fsm_state[u] = "FoodLog.waiting_grams"
        /\ reply[u].kind = "ask_grams"
        /\ GetF(fsm_data[u], "qty") = None
        /\ FGt(GetF(fsm_data[u], "kcal_100"), 0)
        /\ GetS(fsm_data[u], "source") # "manual"

\* what cmd_log_food leaves of a conversation that has no flow pending
FreshLogFood(u, raw, bc, off) ==
    log_food([Ctx(u) EXCEPT !.st = "None", !.data = EmptyData], profile[u], raw, bc, off)

\* a step of /set_profile or of an accepted /log_food of user u in a FoodLog
\* state leaves nothing of the flow that was pending, for the outcomes outs
\* of the HTTP requests
AbandonedBy(u, outs) ==
    fsm_state[u] \in FoodLogStates =>
    /\ set_profile(u)
       => /\ fsm_state'[u] = "Profile.weight" /\ fsm_data'[u] = EmptyData
          /\ logged_calories'[u] = logged_calories[u]
          /\ custom_foods'[u] = custom_foods[u]
    /\ \A raw \in RawArgs : \A o \in Outcomes(profile[u], raw, custom_foods[u]) :
          (/\ Accepted(profile[u], raw) /\ o.bc \in outs /\ o.off \in outs
           /\ cmd_log_food(u, raw, o.bc, o.off))
          => \E fresh \in {FreshLogFood(u, raw, o.bc, o.off)} :
                /\ fsm_state'[u] = fresh.st /\ fsm_data'[u] = fresh.data
                /\ logged_calories'[u] = fresh.cal
                /\ custom_foods'[u] = custom_foods[u]

\* C27: in every FoodLog state a /set_profile, or a /log_food that names a
\* food, is accepted and abandons the pending flow: the data of the flow is
\* discarded (the FSM and its data become what the command makes of a
\* conversation with no flow pending), the day aggregate gets nothing of the
\* abandoned flow and no custom food changes.
C27_Abandonment ==
    [][\A u \in UserIds : AbandonedBy(u, DOMAIN OffResponse \cup DOMAIN BcResponse)]_vars

\* C27 for the requests whose HTTP responses are read without an exception
\* (every outcome but a body that is not a JSON object): it holds.
C27_AbandonmentAnswered ==
    [][\A u \in UserIds :
          AbandonedBy(u, (DOMAIN OffResponse \cup DOMAIN BcResponse) \ {"badjson"})]_vars

\* the option of index idx is chosen: the flow goes on with its values
PickedOption(u, opt) ==
    \/ /\ fsm_state'[u] \in {"FoodLog.waiting_serving_g", "FoodLog.waiting_grams"}
       /\ GetF(fsm_data'[u], "kcal_100") = opt.kcal_100g
       /\ GetT(fsm_data'[u], "food_name") = opt.name
       /\ GetF(fsm_data'[u], "serving_g") = opt.serving_g
       /\ nlogs'[u] = nlogs[u]
    \/ /\ fsm_state'[u] = "None" /\ fsm_data'[u] = EmptyData
       /\ nlogs'[u] = nlogs[u] + 1
       /\ reply'[u].kind = "logged"
       /\ reply'[u].name = opt.name /\ reply'[u].kcal_100 = opt.kcal_100g

\* C28: in waiting_choice the data holds a list food_options of 1 to 3
\* options.  A button of an index inside the list stores the kcal_100, the
\* food_name and the serving_g of that option and goes on to the quantity:
\* the food is logged, or the FSM waits for the serving size or for the
\* grams.  A button of an index outside the list logs nothing and clears the
\* flow.  A text message leaves the FSM state and the data as they are.
C28_Choice ==
    /\ [](\A u \in UserIds :
             fsm_state[u] = "FoodLog.waiting_choice"
             => Len(GetL(fsm_data[u], "food_options")) \in 1..3)
    /\ [][\A u \in UserIds :
             fsm_state[u] = "FoodLog.waiting_choice" =>
             /\ \A idx \in PickIdx :
                   cb_food_pick(u, idx) =>
                   IF idx < Len(fsm_data[u]["food_options"])
                   THEN PickedOption(u, fsm_data[u]["food_options"][idx + 1])
                   ELSE /\ fsm_state'[u] = "None" /\ fsm_data'[u] = EmptyData
                        /\ nlogs'[u] = nlogs[u]
                        /\ logged_calories'[u] = logged_calories[u]
             /\ \A text \in Texts :
                   food_choice_text_fallback(u, text) =>
                   /\ fsm_state'[u] = fsm_state[u] /\ fsm_data'[u] = fsm_data[u]
                   /\ logged_calories'[u] = logged_calories[u]]_vars

\* the second of several options was picked for a request without a
\* quantity: the FSM waits for the grams with the values of that option
C28_Witness ==
    \E u \in UserIds :
        /\ fsm_state[u] = "FoodLog.waiting_grams"
        /\ Len(GetL(fsm_data[u], "food_options")) >= 2
        /\ GetT(fsm_data[u], "food_name") = fsm_data[u]["food_options"][2].name
        /\ GetF(fsm_data[u], "kcal_100") = fsm_data[u]["food_options"][2].kcal_100g
        /\ fsm_data[u]["food_options"][2].name # fsm_data[u]["food_options"][1].name

\* what C29 states of a call of estimate_food_option, for the queries
\* IsCode takes for barcodes
BarcodeShortcut(IsCode(_)) ==
    call.fn = "estimate_food_option with lookup" =>
    /\ call.lookup <=> IsCode(call.query)
    /\ IF call.lookup /\ call.bc = BcMilk
       THEN /\ call.res.status = "ok"
            /\ call.res.options = <<call.res.chosen>>
            /\ call.res.chosen.score = 100
            /\ call.res.chosen.source = "barcode"
            /\ call.res.note = "barcode"
       ELSE call.res = EstimateAfterBarcode(call.query, call.cf, call.off)

\* C29: estimate_food_option makes the barcode lookup exactly when the
\* query consists of 8 to 14 digits and nothing else.  A lookup that finds a
\* product gives status ok with one candidate of score 100 and source
\* barcode, whatever the custom foods and the search would give; a lookup
\* that finds none leaves the result to the local matcher and then to the
\* search.
C29_BarcodeShortcut ==
    BarcodeShortcut(LAMBDA q : AllDigits(q) /\ Len(q) >= 8 /\ Len(q) <= 14)

\* C29 with the spaces of the query left out before its digits are
\* counted, for the calls whose HTTP responses are read without an
\* exception: it holds.
C29_BarcodeShortcutAnswered ==
    (call.fn = "estimate_food_option with lookup"
        /\ call.bc # BcBadJson /\ call.off # OffBadJson)
    => BarcodeShortcut(LAMBDA q : AllDigits(SelectSeq(q, LAMBDA c : c # " "))
                                  /\ Len(SelectSeq(q, LAMBDA c : c # " ")) >= 8
                                  /\ Len(SelectSeq(q, LAMBDA c : c # " ")) <= 14)

(***************************************************************************)
(* C30                                                                     *)
(***************************************************************************)
Positive(x) == x # None /\ FGt(x, 0)
\* the kJ field of the nutriments: energy-kj_100g, energy_100g in its absence
KjField(nutr) ==
    IF to_float(nutr.energy_kj_100g) = None THEN to_float(nutr.energy_100g)
    ELSE to_float(nutr.energy_kj_100g)
MacrosPresent(nutr) ==
    /\ to_float(nutr.proteins_100g) # None
    /\ to_float(nutr.fat_100g) # None
    /\ to_float(nutr.carbohydrates_100g) # None
MacroEstimate(nutr) ==
    Num(4 * nutr.proteins_100g.v + 9 * nutr.fat_100g.v + 4 * nutr.carbohydrates_100g.v)
\* the priority order among the nutriments of a call
PriorityOrder(nutr, res, options) ==
    LET kcal == to_float(nutr.energy_kcal_100g)
        kj == KjField(nutr)
    IN  /\ Positive(kcal) => res = kcal
        /\ ~Positive(kcal) /\ Positive(kj) => res = KjToKcal(kj)
        /\ ~Positive(kcal) /\ ~Positive(kj) /\ MacrosPresent(nutr)
             => res = (IF Positive(MacroEstimate(nutr)) THEN MacroEstimate(nutr) ELSE None)
        /\ ~Positive(kcal) /\ ~Positive(kj) /\ ~MacrosPresent(nutr) => res = None
        /\ res = None => options = << >>
        /\ res # None => Len(options) = 1 /\ options[1].kcal_100g = res

\* C30: kcal_from_nutriments returns the positive kcal field as it is, else
\* the positive kJ field divided by 4.184, else 4p + 9f + 4c when the three
\* macronutrients are present and the sum is positive, else no value, and
\* then the product is left out of the candidates without an error; a
\* returned value is always greater than zero.
C30_KcalPriority ==
    call.fn = "kcal_from_nutriments"
        => /\ PriorityOrder(call.nutr, call.res, call.options)
           /\ call.res # None => FGt(call.res, 0)

\* Short of the kJ values whose quotient by 4.184 is rounded to 0.0, the
\* priority order holds and a returned value is greater than zero.
C30_KcalPriorityAboveUnderflow ==
    call.fn = "kcal_from_nutriments" /\ KjField(call.nutr).t # "tiny"
        => /\ PriorityOrder(call.nutr, call.res, call.options)
           /\ call.res # None => FGt(call.res, 0)

\* Whenever a food flow completes, the aggregate kept under the id of
\* message.from_user -- the user in a message handler, the bot in
\* cb_food_pick -- grows by exactly kcal_100 * grams / 100, and the FSM of the
\* user is cleared.
C10_ResolvedTerminalOfSender ==
    [][\A u \in UserIds :
          nlogs'[u] = nlogs[u] + 1
          => /\ fsm_state'[u] = "None"
             /\ fsm_data'[u] = EmptyData
             /\ reply'[u].kind = "logged"
             /\ \E who \in {u, BotId} :
                   /\ who = BotId <=> \E idx \in PickIdx : cb_food_pick(u, idx)
                   /\ logged_calories'[who]
                        = FAdd(logged_calories[who], FMul(reply'[u].kcal_100, reply'[u].grams))
                   /\ \A other \in (UserIds \cup {BotId}) \ {who} :
                         logged_calories'[other] = logged_calories[other]]_vars

(***************************************************************************)
(* Two users.  The handlers of two users with a complete profile, one      *)
(* handler at a time in any order; the store and the FSM storage are keyed *)
(* by the id the handler passes.                                           *)
(***************************************************************************)
TwoUsers == {1, 2}
StoreIds == TwoUsers \cup {BotId}
UsersRawArgs == { <<"r", "i", "c", "e", " ", "2">>, <<"r", "i", "c", "e", " ", "6", "0", "0", "0">> }
UsersAddFoodArgs == { <<"r", "i", "c", "e", " ", "8", "9">> }
UsersTexts == { <<"1", "2", "0">> }
\* the search fails or finds two similar products
UsersOff == {"fail", "similar"}

InitUsers ==
    /\ profile = [u \in TwoUsers |-> TRUE]
    /\ custom_foods = [u \in TwoUsers |-> << >>]
    /\ logged_calories = [u \in StoreIds |-> Num(0)]
    /\ logged_water_ml = [u \in StoreIds |-> 0]
    /\ store = NoStore
    /\ fsm_state = [u \in TwoUsers |-> "None"]
    /\ fsm_data = [u \in TwoUsers |-> EmptyData]
    /\ reply = [u \in TwoUsers |-> Reply("None")]
    /\ req = [u \in TwoUsers |-> NoRequest]
    /\ nlogs = [u \in TwoUsers |-> 0]
    /\ keyboard = [u \in TwoUsers |-> NoKeyboard]
    /\ tasks = [u \in TwoUsers |-> << >>]
    /\ call = NoCall

NextUsers ==
    \E u \in TwoUsers :
        \/ \E args \in UsersAddFoodArgs : cmd_add_food(u, args)
        \/ \E raw \in UsersRawArgs : \E o \in Outcomes(profile[u], raw, custom_foods[u]) :
              o.bc = "fail" /\ o.off \in UsersOff /\ cmd_log_food(u, raw, o.bc, o.off)
        \/ cb_food_pick(u, 0)
        \/ cb_food_manual(u)
        \/ \E text \in UsersTexts :
              \/ food_serving_g(u, text)
              \/ food_manual_kcal(u, text)
              \/ food_grams(u, text)
        \/ cmd_reset_today(u)

SpecUsers == InitUsers /\ [][NextUsers]_vars

(***************************************************************************)
(* C31                                                                     *)
(***************************************************************************)
\* what the store and the FSM storage keep under the id b is left as it is
KeptFor(b) ==
    /\ logged_calories'[b] = logged_calories[b]
    /\ b \in TwoUsers => /\ profile'[b] = profile[b]
                         /\ custom_foods'[b] = custom_foods[b]
                         /\ fsm_state'[b] = fsm_state[b]
                         /\ fsm_data'[b] = fsm_data[b]

C31_UserIsolationAmongUsers ==
    [][\E a \in TwoUsers : \A b \in TwoUsers \ {a} : KeptFor(b)]_vars

\* The aggregate kept under the id of the bot holds the calories of flows of
\* both users, whose own aggregates are zero.
C31_SharedAggregate ==
    /\ \A u \in TwoUsers : nlogs[u] = 1 /\ logged_calories[u] = Num(0)
    /\ IsNum(logged_calories[BotId]) /\ logged_calories[BotId].v = 2 * 720000

(***************************************************************************)
(* C32                                                                     *)
(***************************************************************************)
\* C32: every record of the custom foods of a user is stored under the key
\* normalize_food_name of its name field, after any sequence of /add_food,
\* manual kcal entries and learned serving sizes.
C32_KeysNormalized ==
    \A u \in UserIds : \A i \in DOMAIN custom_foods[u] :
        custom_foods[u][i].key = normalize_food_name(custom_foods[u][i].rec.name)

\* a serving size has been learned for a product of the search: its record
\* carries the name of the product, which is not its own normal form
C32_Witness ==
    \E u \in UserIds : \E i \in DOMAIN custom_foods[u] :
        /\ custom_foods[u][i].rec.serving_g # None
        /\ custom_foods[u][i].rec.name # custom_foods[u][i].key
        /\ custom_foods[u][i].key = normalize_food_name(custom_foods[u][i].rec.name)
        /\ reply[u].kind = "logged"

(***************************************************************************)
(* storage.py call by call.  Each call of the DataStore takes the lock,    *)
(* loads the whole file, changes the loaded data and saves the whole file; *)
(* a call may be interrupted at each of its awaits, and up to MaxOps calls *)
(* are in progress at once, for two users.                                 *)
(***************************************************************************)
StoreCall(kind, ml, kcal, target, key, record) ==
    [kind |-> kind, ml |-> ml, kcal |-> kcal, target |-> target, key |-> key,
     record |-> record]
\* the calls made and their arguments
StoreCalls ==
    { StoreCall("add_food", 0, Num(100), 0, NoneText, NoRecord),
      StoreCall("add_food", 0, Num(250), 0, NoneText, NoRecord),
      StoreCall("add_water", 250, None, 0, NoneText, NoRecord),
      StoreCall("add_workout", 200, Num(300), 0, NoneText, NoRecord),
      StoreCall("set_day_targets", 2000, None, 2500, NoneText, NoRecord),
      StoreCall("upsert_custom_food", 0, None, 0, <<"r", "i", "c", "e">>,
                Record(<<"r", "i", "c", "e">>, Num(89), None)),
      StoreCall("upsert_custom_food", 0, None, 0, <<"r", "i", "c", "e">>,
                Record(<<"R", "i", "c", "e">>, Num(130), Num(50))),
      StoreCall("reset_today", 0, None, 0, NoneText, NoRecord) }

\* async with self._lock taking the lock whether it is held or not
lock_never_held(lock) == TRUE

\* async with self._lock: the lock is taken when no call holds it
lock_free(lock) == lock = 0
\* the body of a call between _load_nolock and _save_nolock, on the data
\* loaded: the whole file as it will be saved
StoreChange(user, arg, data) ==
    CASE arg.kind = "add_water" ->
            [data EXCEPT ![user].day.logged_water_ml = @ + arg.ml]
      [] arg.kind = "add_food" ->
            [data EXCEPT ![user].day.logged_calories = add_food(@, arg.kcal)]
      [] arg.kind = "add_workout" ->
            [data EXCEPT ![user].day.burned_calories = FAdd(@, arg.kcal),
                         ![user].day.workout_extra_water_ml = @ + arg.ml]
      [] arg.kind = "set_day_targets" ->
            [data EXCEPT ![user].day.water_target_ml = arg.ml,
                         ![user].day.calorie_target = arg.target]
      [] arg.kind = "upsert_custom_food" ->
            [data EXCEPT ![user].custom_foods = upsert_custom_food(@, arg.key, arg.record)]
      [] arg.kind = "reset_today" ->
            [data EXCEPT ![user].day =
                [default_day EXCEPT !.water_target_ml = data[user].day.water_target_ml,
                                    !.calorie_target = data[user].day.calorie_target]]

HandlerVars == <<profile, custom_foods, logged_calories, fsm_state, fsm_data, reply,
                 req, nlogs, keyboard, tasks, logged_water_ml, call>>

\* a handler calls the store
store_call(p, user, arg) ==
    /\ store.ops[p] = IdleOp
    /\ store.made < MaxCalls
    /\ store' = [store EXCEPT !.ops[p] = [kind |-> arg.kind, user |-> user, arg |-> arg,
                                          pc |-> "acquire", data |-> << >>],
                              !.made = @ + 1]
    /\ UNCHANGED HandlerVars

\* async with self._lock
store_acquire(p) ==
    /\ store.ops[p].pc = "acquire"
    /\ lock_free(store.lock)
    /\ store' = [store EXCEPT !.lock = p, !.ops[p].pc = "load"]
    /\ UNCHANGED HandlerVars

\* data = await self._load_nolock(), with _ensure_user and _ensure_day
store_load(p) ==
    /\ store.ops[p].pc = "load"
    /\ store' = [store EXCEPT !.ops[p].pc = "save", !.ops[p].data = store.file]
    /\ UNCHANGED HandlerVars

\* the change, await self._save_nolock(data), and the lock is released
store_save(p) ==
    /\ store.ops[p].pc = "save"
    /\ \E op \in {store.ops[p]} :
          store' = [store EXCEPT
                      !.file = StoreChange(op.user, op.arg, op.data),
                      !.lock = 0,
                      !.ops[p] = IdleOp,
                      !.passed[op.user] =
                          IF op.kind = "add_food" THEN FAdd(@, op.arg.kcal)
                          ELSE IF op.kind = "reset_today" THEN Num(0) ELSE @,
                      !.upserted[op.user] =
                          IF op.kind = "upsert_custom_food"
                          THEN [@ EXCEPT ![op.arg.key] = op.arg.record] ELSE @]
    /\ UNCHANGED HandlerVars

NextStore ==
    \E p \in 1..MaxOps :
        \/ \E user \in StoreUsers : \E arg \in StoreCalls : store_call(p, user, arg)
        \/ store_acquire(p)
        \/ store_load(p)
        \/ store_save(p)

SpecStore == Init /\ [][NextStore]_vars

(***************************************************************************)
(* C33                                                                     *)
(***************************************************************************)
\* C33: the calls of the store are atomic.  After any interleaving of
\* add_food, add_water, add_workout, set_day_targets, upsert_custom_food and
\* reset_today, for either user, the logged_calories of today are the sum of
\* the calories passed to add_food since the last reset and each upserted key
\* holds the record of its last upsert: no increment and no upsert is lost.
C33_StoreAtomic ==
    \A u \in StoreUsers :
        /\ store.file[u].day.logged_calories = store.passed[u]
        /\ \A key \in StoreKeys :
              store.upserted[u][key] # NoRecord
                  => /\ key \in CfKeys(store.file[u].custom_foods)
                     /\ CfRec(store.file[u].custom_foods, key) = store.upserted[u][key]

\* two add_food calls of one user and an upsert of the other user have
\* returned: both increments and the record are there
C33_Witness ==
    /\ store.made = 3
    /\ \A p \in 1..MaxOps : store.ops[p] = IdleOp
    /\ store.file[1].day.logged_calories = Num(350)
    /\ store.passed[1] = Num(350)
    /\ CfKeys(store.file[2].custom_foods) = { <<"r", "i", "c", "e">> }

(***************************************************************************)
(* C34                                                                     *)
(***************************************************************************)
\* C34: a button of a choice keyboard ("foodpick:<idx>" or "foodmanual")
\* pressed while the FSM of the user is not in waiting_choice changes
\* neither the FSM state nor the data and logs nothing.
C34_StaleCallbackIgnored ==
    [][\A u \in UserIds :
          /\ fsm_state[u] # "FoodLog.waiting_choice"
          /\ cb_food_manual(u) \/ \E idx \in PickIdx : cb_food_pick(u, idx)
          => /\ fsm_state'[u] = fsm_state[u]
             /\ fsm_data'[u] = fsm_data[u]
             /\ nlogs'[u] = nlogs[u]
             /\ logged_calories' = logged_calories]_vars

(***************************************************************************)
(* The buttons of a keyboard pressed while a handler of the same user is   *)
(* suspended.  cb_food_pick awaits callback.answer() before it reads the   *)
(* FSM; from there to state.clear() of _finish_food_log it is not          *)
(* interrupted.  The user has a complete profile.                          *)
(***************************************************************************)
ButtonRawArgs ==
    { <<"r", "i", "c", "e">>, <<"r", "i", "c", "e", " ", "2">>,
      <<"r", "i", "c", "e", " ", "6", "0", "0", "0">> }

PickTask(idx) ==
    [idx |-> idx] @@ Task("pick", NoneText, "fail", "fail", << >>, NoneText, None, Reply("None"))

InitReady ==
    /\ profile = [u \in UserIds |-> TRUE]
    /\ custom_foods = [u \in UserIds |-> << >>]
    /\ logged_calories = [u \in UserIds \cup {BotId} |-> Num(0)]
    /\ logged_water_ml = [u \in UserIds \cup {BotId} |-> 0]
    /\ store = NoStore
    /\ fsm_state = [u \in UserIds |-> "None"]
    /\ fsm_data = [u \in UserIds |-> EmptyData]
    /\ reply = [u \in UserIds |-> Reply("None")]
    /\ req = [u \in UserIds |-> NoRequest]
    /\ nlogs = [u \in UserIds |-> 0]
    /\ keyboard = [u \in UserIds |-> NoKeyboard]
    /\ tasks = [u \in UserIds |-> << >>]
    /\ call = NoCall

\* cb_food_pick up to callback.answer()
cb_food_pick_await(u, idx) ==
    /\ idx < keyboard[u]
    /\ Len(tasks[u]) < MaxTasks
    /\ tasks' = [tasks EXCEPT ![u] = Append(@, PickTask(idx))]
    /\ UNCHANGED <<profile, custom_foods, logged_calories, fsm_state, fsm_data,
                   reply, req, nlogs, keyboard, logged_water_ml, store, call>>

\* cb_food_pick from callback.answer() on
cb_food_pick_resume(u, i) ==
    /\ tasks[u][i].kind = "pick"
    /\ Apply(u, food_pick(CallbackCtx(u), profile[u], tasks[u][i].idx))
    /\ tasks' = [tasks EXCEPT ![u] = RemoveAt(@, i)]
    /\ UNCHANGED profile

NextButtons ==
    \E u \in UserIds :
        \/ \E raw \in ButtonRawArgs : \E o \in Outcomes(profile[u], raw, custom_foods[u]) :
              cmd_log_food(u, raw, o.bc, o.off)
        \/ \E idx \in PickIdx :
              \/ cb_food_pick(u, idx)
              \/ cb_food_pick_await(u, idx)
        \/ \E i \in DOMAIN tasks[u] : cb_food_pick_resume(u, i)
        \/ cb_food_manual(u)
        \/ \E text \in ConcTexts :
              \/ food_serving_g(u, text)
              \/ food_manual_kcal(u, text)
              \/ food_choice_text_fallback(u, text)
              \/ food_grams(u, text)

SpecButtons == InitReady /\ [][NextButtons]_vars

(***************************************************************************)
(* C35                                                                     *)
(***************************************************************************)
\* the same button pressed twice: the second handler works on what the
\* first has left
PressedTwice(u, idx) ==
    food_pick(food_pick(CallbackCtx(u), profile[u], idx), profile[u], idx)
\* C35: each /log_food flow adds calories at most once.  In every state the
\* same selection button pressed twice makes at most one add_food call; a
\* final answer that has made one leaves no state in which the same answer is
\* taken again; and every step that calls add_food -- also the one of a
\* handler that was suspended while another ran -- leaves the FSM state none
\* and the data empty, from where no button adds anything.
C35_AtMostOnce ==
    /\ [](\A u \in UserIds :
            /\ \A idx \in PickIdx : PressedTwice(u, idx).n <= nlogs[u] + 1
            /\ \A text \in ConcTexts :
                  /\ fsm_state[u] = "FoodLog.waiting_grams"
                        /\ grams_answer(Ctx(u), profile[u], text).n = nlogs[u] + 1
                     => grams_answer(Ctx(u), profile[u], text).st = "None"
                  /\ fsm_state[u] = "FoodLog.waiting_serving_g"
                        /\ serving_g_answer(Ctx(u), profile[u], text).n = nlogs[u] + 1
                     => serving_g_answer(Ctx(u), profile[u], text).st = "None"
            /\ fsm_state[u] = "None" /\ fsm_data[u] = EmptyData
                  => \A idx \in PickIdx :
                        food_pick(CallbackCtx(u), profile[u], idx).n = nlogs[u])
    /\ [][\A u \in UserIds :
            nlogs'[u] = nlogs[u] + 1
               => fsm_state'[u] = "None" /\ fsm_data'[u] = EmptyData]_vars

\* a button has completed the flow and the same button, pressed once more,
\* has been refused: one add_food call
C35_Witness ==
    \E u \in UserIds :
        /\ nlogs[u] = 1
        /\ logged_calories[BotId] = Num(720000)
        /\ tasks[u] = << >>
        /\ reply[u].kind = "error"
        /\ fsm_state[u] = "None"
        /\ keyboard[u] # NoKeyboard

(***************************************************************************)
(* C36                                                                     *)
(***************************************************************************)
\* C36: a manual kcal entry never discards a serving size stored for the
\* same key.  When the custom foods hold a record with a serving_g under
\* normalize_food_name(food_query) and a value is entered at the
\* waiting_manual_kcal prompt, the record still has that serving_g afterwards.
C36_ServingKept ==
    [][\A u \in UserIds :
          /\ fsm_state[u] = "FoodLog.waiting_manual_kcal"
          /\ Norm(FoodQuery(fsm_data[u])) \in CfKeys(custom_foods[u])
          /\ CfRec(custom_foods[u], Norm(FoodQuery(fsm_data[u]))).serving_g # None
          /\ \E text \in Texts : food_manual_kcal(u, text)
          => /\ Norm(FoodQuery(fsm_data[u])) \in CfKeys(custom_foods'[u])
             /\ CfRec(custom_foods'[u], Norm(FoodQuery(fsm_data[u]))).serving_g
                  = CfRec(custom_foods[u], Norm(FoodQuery(fsm_data[u]))).serving_g]_vars

(***************************************************************************)
(* C37                                                                     *)
(***************************************************************************)
\* C37: the two conversions of a unit quantity agree.  For the pending
\* amount q with unit piece, serving or auto of a waiting_serving_g prompt
\* and every serving size g accepted there, the grams logged are the grams
\* _resolve_grams returns for q when g is known, q * g.
C37_ConversionsAgree ==
    [][\A u \in UserIds : \A text \in Texts :
          /\ fsm_state[u] = "FoodLog.waiting_serving_g"
          /\ nlogs'[u] = nlogs[u] + 1
          /\ food_serving_g(u, text)
          => reply'[u].grams
               = resolve_grams(Ctx(u), FoodName(fsm_data[u]), fsm_data[u]["qty"],
                               fsm_data[u]["unit"], ParseFloat(text)).grams]_vars

\* The two conversions agree for every pending amount other than zero.
C37_ConversionsAgreeNonZero ==
    [][\A u \in UserIds : \A text \in Texts :
          /\ fsm_state[u] = "FoodLog.waiting_serving_g"
          /\ nlogs'[u] = nlogs[u] + 1
          /\ Has(fsm_data[u], "qty") /\ fsm_data[u]["qty"] # Num(0)
          /\ food_serving_g(u, text)
          => /\ fsm_data[u]["unit"] \in {"piece", "serving", "auto"}
             /\ reply'[u].grams
                  = resolve_grams(Ctx(u), FoodName(fsm_data[u]), fsm_data[u]["qty"],
                                  fsm_data[u]["unit"], ParseFloat(text)).grams
             /\ reply'[u].grams = FMul(fsm_data[u]["qty"], ParseFloat(text))]_vars

(***************************************************************************)
(* C38: the auto-accept decision of the external path                      *)
(***************************************************************************)
\* C38: on the external path the decision depends on the best score alone:
\* for every non-empty list of candidates the result has status ok exactly
\* when the best score is 80 or more, and status choose otherwise, whatever
\* the spread of the scores and the number of plausible values add to the
\* confidence.
C38_StatusByBestScore ==
    CallFromSearch =>
        /\ call.res.status \in {"ok", "choose"}
        /\ call.res.status = "ok" <=> CallTop[1].score >= 80
        /\ \A i \in DOMAIN CallRanked : CallRanked[i].score <= CallTop[1].score

\* a best score between 70 and 79 with both additions, a spread of 10 or
\* more and three plausible values: confidence 70, the candidates are offered
C38_Witness ==
    /\ CallFromSearch
    /\ CallTop[1].score \in 70..79
    /\ Len(CallTop) > 1
    /\ CallTop[1].score - CallTop[2].score >= 10
    /\ Len(CallPlausible) >= 3
    /\ call.res.confidence = 70
    /\ call.res.status = "choose"

(***************************************************************************)
(* handlers.py: the router.  A message goes to the first handler, in the   *)
(* order of registration, whose filters accept it.                         *)
(***************************************************************************)
\* Command(name): the text begins with "/" and its first word is the name
\* of the command
Command(name, text) ==
    /\ text # << >>
    /\ text[1] = "/"
    /\ Slice(text, 2, FirstFrom(text, 1, IsSpace) - 1) = CommandName[name]

\* (command.args or "").strip(): what follows the first word
CommandArgs(text) == Strip(Slice(text, FirstFrom(text, 1, IsSpace), Len(text)))

\* a handler registered with a command filter, with a state filter, with none
OnCommand(handler, name) == [handler |-> handler, command |-> name, state |-> "any"]
OnState(handler, state) == [handler |-> handler, command |-> "any", state |-> state]

\* the router with /reset_today registered before the handlers of FoodLog
RegisteredResetEarly ==
    << OnCommand("cmd_start", "start"), OnCommand("cmd_help", "help"),
       OnCommand("set_profile", "set_profile"),
       OnState("profile_weight", "Profile.weight"),
       OnState("profile_height", "Profile.height"),
       OnState("profile_age", "Profile.age"),
       OnState("profile_activity", "Profile.activity"),
       OnState("profile_city", "Profile.city"),
       OnState("profile_cal_goal", "Profile.calorie_goal"),
       OnCommand("cmd_add_food", "add_food"), OnCommand("cmd_log_water", "log_water"),
       OnCommand("cmd_log_food", "log_food"),
       OnCommand("cmd_reset_today", "reset_today"),
       OnState("food_serving_g", "FoodLog.waiting_serving_g"),
       OnState("food_manual_kcal", "FoodLog.waiting_manual_kcal"),
       OnState("food_choice_text_fallback", "FoodLog.waiting_choice"),
       OnState("food_grams", "FoodLog.waiting_grams"),
       OnCommand("cmd_log_workout", "log_workout"),
       OnState("workout_type_step", "WorkoutLog.waiting_type"),
       OnState("workout_minutes_step", "WorkoutLog.waiting_minutes"),
       OnCommand("cmd_check_progress", "check_progress"), OnCommand("cmd_plot", "plot"),
       [handler |-> "fallback", command |-> "any", state |-> "any"] >>

\* the handlers of messages in the order of their registration
Registered ==
    << OnCommand("cmd_start", "start"), OnCommand("cmd_help", "help"),
       OnCommand("set_profile", "set_profile"),
       OnState("profile_weight", "Profile.weight"),
       OnState("profile_height", "Profile.height"),
       OnState("profile_age", "Profile.age"),
       OnState("profile_activity", "Profile.activity"),
       OnState("profile_city", "Profile.city"),
       OnState("profile_cal_goal", "Profile.calorie_goal"),
       OnCommand("cmd_add_food", "add_food"), OnCommand("cmd_log_water", "log_water"),
       OnCommand("cmd_log_food", "log_food"),
       OnState("food_serving_g", "FoodLog.waiting_serving_g"),
       OnState("food_manual_kcal", "FoodLog.waiting_manual_kcal"),
       OnState("food_choice_text_fallback", "FoodLog.waiting_choice"),
       OnState("food_grams", "FoodLog.waiting_grams"),
       OnCommand("cmd_log_workout", "log_workout"),
       OnState("workout_type_step", "WorkoutLog.waiting_type"),
       OnState("workout_minutes_step", "WorkoutLog.waiting_minutes"),
       OnCommand("cmd_check_progress", "check_progress"), OnCommand("cmd_plot", "plot"),
       OnCommand("cmd_reset_today", "reset_today"),
       [handler |-> "fallback", command |-> "any", state |-> "any"] >>

\* the handler a message of the text meets in the FSM state st
Handler(st, text) ==
    LET accepts(h) == /\ h.command = "any" \/ Command(h.command, text)
                      /\ h.state = "any" \/ h.state = st
        first == CHOOSE i \in DOMAIN Registered :
                    /\ accepts(Registered[i])
                    /\ \A j \in 1..(i - 1) : ~accepts(Registered[j])
    IN  Registered[first].handler

\* the handler of each message text in each FSM state, computed once
HandlerTable ==
    [st \in {"None"} \cup ProfileStates \cup FoodLogStates |->
        [text \in MessageTexts |-> Handler(st, text)]]
Handles(u, text, handler) == HandlerTable[fsm_state[u]][text] = handler

\* the most water a behaviour logs in a day
MaxWater == 500
\* the most millilitres /log_water takes
WaterMax == 5000

\* cmd_log_water with the arguments of the command
log_water(c, prof, args) ==
    LET add(ml) ==
            IF ml = None \/ FLe(ml, 0) \/ FGt(ml, WaterMax)
            THEN [c EXCEPT !.reply = Reply("error")]
            ELSE [c EXCEPT !.water = @ + ml.v, !.reply = Reply("water")]
    IN  IF ~prof THEN [c EXCEPT !.reply = Reply("error")]
        ELSE add(parse_int(Strip(args)))

cmd_log_water(u, args) ==
    /\ fsm_state[u] \notin ProfileStates
    /\ \E c \in {log_water(Ctx(u), profile[u], args)} :
          /\ c.water <= MaxWater
          /\ Apply(u, c)
    /\ UNCHANGED <<profile, tasks>>

\* cmd_log_workout with fewer than two arguments: the question for the type
\* of the workout when there is none, the usage message for one
cmd_log_workout(u, args) ==
    /\ fsm_state[u] \notin ProfileStates \cup FoodLogStates
    /\ Len(Split(args)) < 2
    /\ Apply(u, IF ~profile[u] THEN [Ctx(u) EXCEPT !.reply = Reply("error")]
                ELSE IF Strip(args) = << >>
                THEN [Ctx(u) EXCEPT !.st = "WorkoutLog.waiting_type", !.data = EmptyData,
                                    !.reply = Reply("ask_type")]
                ELSE [Ctx(u) EXCEPT !.reply = Reply("error")])
    /\ UNCHANGED <<profile, tasks>>

\* cmd_check_progress: the progress of the day, or the message of the
\* exception a request of it raised
cmd_check_progress(u) ==
    /\ fsm_state[u] \notin ProfileStates \cup FoodLogStates
    /\ \E kind \in IF profile[u] THEN {"progress", "error"} ELSE {"error"} :
          Apply(u, [Ctx(u) EXCEPT !.reply = Reply(kind)])
    /\ UNCHANGED <<profile, tasks>>

\* cmd_plot: the plots of the days stored, or the message that there is no
\* day yet
cmd_plot(u, args) ==
    /\ fsm_state[u] \notin ProfileStates \cup FoodLogStates
    /\ \E kind \in IF profile[u] THEN {"plot", "no_data"} ELSE {"error"} :
          Apply(u, [Ctx(u) EXCEPT !.reply = Reply(kind)])
    /\ UNCHANGED <<profile, tasks>>

\* fallback: the answer to an unknown command, nothing for another text
fallback(u, text) ==
    /\ fsm_state[u] \notin ProfileStates \cup FoodLogStates
    /\ Apply(u, IF text # << >> /\ text[1] = "/"
                THEN [Ctx(u) EXCEPT !.reply = Reply("error")] ELSE Ctx(u))
    /\ UNCHANGED <<profile, tasks>>

\* a message of a user with a profile, given to the handler the router finds
NextMessages ==
    \E u \in UserIds : \E text \in MessageTexts :
        \/ Handles(u, text, "set_profile") /\ set_profile(u)
        \/ Handles(u, text, "profile_weight") /\ profile_weight(u, text)
        \/ Handles(u, text, "profile_height") /\ profile_height(u, text)
        \/ Handles(u, text, "profile_age") /\ profile_age(u, text)
        \/ Handles(u, text, "profile_activity") /\ profile_activity(u, text)
        \/ Handles(u, text, "profile_city") /\ profile_city(u, text)
        \/ Handles(u, text, "profile_cal_goal") /\ profile_cal_goal(u, text)
        \/ Handles(u, text, "cmd_add_food") /\ cmd_add_food(u, CommandArgs(text))
        \/ Handles(u, text, "cmd_log_water") /\ cmd_log_water(u, CommandArgs(text))
        \/ /\ Handles(u, text, "cmd_log_food")
           /\ \E o \in Outcomes(profile[u], CommandArgs(text), custom_foods[u]) :
                 cmd_log_food(u, CommandArgs(text), o.bc, o.off)
        \/ Handles(u, text, "food_serving_g") /\ food_serving_g(u, text)
        \/ Handles(u, text, "food_manual_kcal") /\ food_manual_kcal(u, text)
        \/ Handles(u, text, "food_choice_text_fallback") /\ food_choice_text_fallback(u, text)
        \/ Handles(u, text, "food_grams") /\ food_grams(u, text)
        \/ Handles(u, text, "cmd_log_workout") /\ cmd_log_workout(u, CommandArgs(text))
        \/ Handles(u, text, "cmd_check_progress") /\ cmd_check_progress(u)
        \/ Handles(u, text, "cmd_plot") /\ cmd_plot(u, CommandArgs(text))
        \/ Handles(u, text, "cmd_reset_today") /\ cmd_reset_today(u)
        \/ Handles(u, text, "fallback") /\ fallback(u, text)

SpecMessages == InitReady /\ [][NextMessages]_vars

(***************************************************************************)
(* C39                                                                     *)
(***************************************************************************)
\* the prompts of the food flow answered by a text
TextPrompts ==
    {"FoodLog.waiting_manual_kcal", "FoodLog.waiting_serving_g", "FoodLog.waiting_grams"}
\* the commands registered after the handlers of FoodLog
LateCommands == {"log_workout", "check_progress", "plot", "reset_today"}
\* the handler of a prompt and what it makes of a text
PromptHandler(st) ==
    CASE st = "FoodLog.waiting_manual_kcal" -> "food_manual_kcal"
      [] st = "FoodLog.waiting_serving_g" -> "food_serving_g"
      [] st = "FoodLog.waiting_grams" -> "food_grams"
PromptAnswer(c, prof, text) ==
    CASE c.st = "FoodLog.waiting_manual_kcal" -> manual_kcal_answer(c, prof, text)
      [] c.st = "FoodLog.waiting_serving_g" -> serving_g_answer(c, prof, text)
      [] c.st = "FoodLog.waiting_grams" -> grams_answer(c, prof, text)

\* in a text prompt of the food flow: what each message meets
CommandsInPrompt(u) ==
    \A text \in MessageTexts :
        /\ (\E name \in LateCommands : Command(name, text)) =>
              /\ HandlerTable[fsm_state[u]][text] = PromptHandler(fsm_state[u])
              /\ PromptAnswer(Ctx(u), profile[u], text)
                    = [Ctx(u) EXCEPT !.reply = Reply("reprompt")]
        /\ Command("set_profile", text) => HandlerTable[fsm_state[u]][text] = "set_profile"
        /\ Command("add_food", text) =>
              /\ HandlerTable[fsm_state[u]][text] = "cmd_add_food"
              /\ \E c \in {add_food_command(Ctx(u), profile[u], CommandArgs(text))} :
                    c.st = fsm_state[u] /\ c.data = fsm_data[u]
        /\ Command("log_water", text) =>
              /\ HandlerTable[fsm_state[u]][text] = "cmd_log_water"
              /\ \E c \in {log_water(Ctx(u), profile[u], CommandArgs(text))} :
                    c.st = fsm_state[u] /\ c.data = fsm_data[u]
        /\ Command("log_food", text) =>
              /\ HandlerTable[fsm_state[u]][text] = "cmd_log_food"
              /\ \A o \in Outcomes(profile[u], CommandArgs(text), custom_foods[u]) :
                    \E c \in {log_food(Ctx(u), profile[u], CommandArgs(text), o.bc, o.off)} :
                        c.st # fsm_state[u] \/ c.data # fsm_data[u]
                            => Accepted(profile[u], CommandArgs(text))

\* a step from a text prompt of the food flow
StepInPrompt(u) ==
    fsm_state[u] \in TextPrompts =>
        /\ reply'[u].kind \in {"reprompt", "remembered", "water", "error"} =>
              fsm_state'[u] = fsm_state[u] /\ fsm_data'[u] = fsm_data[u]
        /\ reply'[u].kind = "reprompt" =>
              /\ custom_foods' = custom_foods
              /\ logged_calories' = logged_calories
              /\ logged_water_ml' = logged_water_ml
              /\ nlogs' = nlogs
        /\ fsm_state'[u] \in ProfileStates =>
              fsm_state'[u] = "Profile.weight" /\ fsm_data'[u] = EmptyData

\* C39: while the FSM is in a text prompt of the food flow
\* (waiting_manual_kcal, waiting_serving_g, waiting_grams), a message that
\* is one of the commands registered after the FoodLog handlers
\* (/log_workout, /check_progress, /plot, /reset_today) goes to the handler
\* of the prompt, is answered with the prompt again and leaves FSM state,
\* data and store unchanged, so none of these commands is ever answered in
\* such a state; /set_profile, /add_food, /log_water and /log_food go to
\* their command handlers, and of these /add_food, /log_water and a
\* /log_food that is refused leave FSM state and data as they are, while
\* /set_profile starts the profile dialogue.
C39_CommandsInFoodPrompts ==
    /\ [](\A u \in UserIds :
             fsm_state[u] \in TextPrompts =>
                 /\ CommandsInPrompt(u)
                 /\ reply[u].kind \notin {"progress", "plot", "no_data", "reset"})
    /\ [][\A u \in UserIds : StepInPrompt(u)]_vars

\* a prompt of the food flow shown again: the only text of the messages that
\* is not a command is a valid answer of every prompt
C39_Witness ==
    \E u \in UserIds :
        /\ fsm_state[u] \in TextPrompts
        /\ reply[u].kind = "reprompt"
        /\ \A text \in MessageTexts :
              text[1] # "/" => PromptAnswer(Ctx(u), profile[u], text).reply.kind # "reprompt"

(***************************************************************************)
(* C40                                                                     *)
(***************************************************************************)
\* the answers a prompt takes as valid: a number above 0 and not above max
ValidAnswers(max) ==
    {text \in Texts : /\ IsNum(ParseFloat(text))
                      /\ FGt(ParseFloat(text), 0)
                      /\ FLe(ParseFloat(text), max)}

\* the most answers a flow still needs in a state of FoodLog
AnswersLeft(st) ==
    CASE st = "FoodLog.waiting_choice" -> 3
      [] st = "FoodLog.waiting_manual_kcal" -> 2
      [] st = "FoodLog.waiting_serving_g" -> 1
      [] st = "FoodLog.waiting_grams" -> 1

\* the handler has resolved the flow of u, or has left it in a state of
\* FoodLog that needs fewer answers
Advanced(u, c) ==
    \/ c.st = "None" /\ c.data = EmptyData /\ c.n = nlogs[u] + 1
    \/ /\ c.st \in FoodLogStates
       /\ AnswersLeft(c.st) < AnswersLeft(fsm_state[u])
       /\ c.n = nlogs[u]

\* C40: every food flow terminates.  A /log_food that starts a flow logs the
\* food at once or leaves a state of FoodLog; in each state of FoodLog there
\* is a valid answer, and every valid answer to the prompt shown (a listed
\* choice or the manual entry, a valid kcal, a valid serving size, valid
\* grams) logs the calories and clears the FSM or leads to a state of FoodLog
\* that needs fewer answers, of which waiting_choice needs at most three,
\* waiting_manual_kcal two, waiting_serving_g and waiting_grams one.
C40_FlowTerminates ==
    \A u \in UserIds :
        /\ fsm_state[u] = "FoodLog.waiting_choice" =>
              /\ Len(GetL(fsm_data[u], "food_options")) >= 1
              /\ \A idx \in 0..(Len(GetL(fsm_data[u], "food_options")) - 1) :
                    Advanced(u, food_pick(CallbackCtx(u), profile[u], idx))
              /\ Advanced(u, food_manual(CallbackCtx(u)))
        /\ fsm_state[u] = "FoodLog.waiting_manual_kcal" =>
              /\ ValidAnswers(KcalMax) # {}
              /\ \A text \in ValidAnswers(KcalMax) :
                    Advanced(u, manual_kcal_answer(Ctx(u), profile[u], text))
        /\ fsm_state[u] = "FoodLog.waiting_serving_g" =>
              /\ ValidAnswers(ServingMax) # {}
              /\ \A text \in ValidAnswers(ServingMax) :
                    Advanced(u, serving_g_answer(Ctx(u), profile[u], text))
        /\ fsm_state[u] = "FoodLog.waiting_grams" =>
              /\ ValidAnswers(GramsMax) # {}
              /\ \A text \in ValidAnswers(GramsMax) :
                    Advanced(u, grams_answer(Ctx(u), profile[u], text))
        /\ \A raw \in RawArgs : \A o \in Outcomes(profile[u], raw, custom_foods[u]) :
              \E c \in {log_food(Ctx(u), profile[u], raw, o.bc, o.off)} :
                  c.started =>
                      \/ c.st = "None" /\ c.data = EmptyData /\ c.n = nlogs[u] + 1
                      \/ c.st \in FoodLogStates /\ c.n = nlogs[u]

\* a flow resolved by its third answer: the request "rice 2" met a list of
\* choices, the kcal was entered by hand and the serving size was asked
\* for; the record of the food holds both answers and the food is logged
C40_Witness ==
    \E u \in UserIds :
        /\ fsm_state[u] = "None"
        /\ reply[u].kind = "logged"
        /\ nlogs[u] >= 1
        /\ req[u].raw = <<"r", "i", "c", "e", " ", "2">>
        /\ req[u].off = "similar"
        /\ Norm(<<"r", "i", "c", "e">>) \in CfKeys(custom_foods[u])
        /\ CfRec(custom_foods[u], Norm(<<"r", "i", "c", "e">>)).kcal_100g = Num(120)
        /\ CfRec(custom_foods[u], Norm(<<"r", "i", "c", "e">>)).serving_g = Num(120)

====
